---- MODULE Spec2Model ----
(***************************************************************************)
(* A model of the garbage-collector interoperability core of arrow:        *)
(* PersistentPool, LocalStack, the type-descriptor registry                *)
(* (ARW_DEFINE_STORAGE_* / TypeStorage / StorageDescriptor) and Handle     *)
(* with its hook sets.  Each component has its own specification           *)
(* (SpecPool, SpecPoolIter, SpecStack, SpecLocal, SpecRegistry, SpecSlots, *)
(* SpecHandle); the variables of the other components stay at their        *)
(* initial values.                                                         *)
(***************************************************************************)
EXTENDS Naturals, Integers, Sequences, FiniteSets, TLC

VARIABLES
  _map,         \* PersistentPool::_map : Data -> (Descriptor, refcount)
  poolFatal,    \* an ARW_CHECK of the pool has failed (the process is dead)
  addCalls,     \* history: add(x, .) calls that returned, per identity
  removeCalls,  \* history: remove(x) calls that returned, per identity
  poolOp,       \* history: the last add or remove, and the map before it
  firstDesc,    \* history: the descriptor of the first add(x, .) that returned
  iter,         \* a range-for over the pool: its two iterators and its yield
  _vec,         \* LocalStack::_vec
  stackFatal,   \* an ARW_CHECK of the stack has failed
  heldRefs,     \* refs handed out by top() so far
  staleRefs,    \* history: held refs above a size the stack was cut to
  stackOp,      \* history: the last stack operation and the stack before it
  cache,        \* per registered type: the static _arw_macro_storage pointer
  heap,         \* descriptor memory, by address
  regStack,     \* the active calls of ArwInternalGetStorageDescriptor::get
  regFatal,     \* an ARW_CHECK has failed during a lookup
  regPhase,     \* "idle", "running" (a lookup is active) or "returned"
  regResult,    \* the type and the pointer of the last outermost return
  handedOut,    \* history: pointers returned by get during this lookup
  handedRaw,    \* history: those returned while still not initialised
  uninitRead,   \* history: a field of a not yet initialised descriptor was read
  allocCount,   \* history: allocations per type
  initCount,    \* history: completed init calls per type
  retCount,     \* history: outermost lookups that returned, per type
  returned,     \* history: every pointer get ever returned, per type
  lastCall,     \* history: the last call of get and what it did
  lookups,      \* history: outermost lookups begun
  lastSlot,     \* the Slot the program last constructed itself, if any
  hType,        \* the discipline (template argument Type) of the handles
  handles,      \* per address: "unborn", "alive" or "dead", and _data
  readNull,     \* MockGCHooks::_readNull
  writeNull,    \* MockGCHooks::_writeNull
  hookLog,      \* history: the Hooks calls of the last handle operation
  gcLog,        \* history: the GCHooks calls of the last handle operation
  createdCount, \* history: Hooks::created calls per handle
  destroyedCount, \* history: Hooks::destroyed calls per handle
  hOp,          \* history: the last handle operation and its result
  DEBUG,        \* whether the build defines DEBUG (ARW_ASSERT is active)
  obj,          \* the descriptor memory the program allocated and init wrote
  sdFatal,      \* the ARW_ASSERT of the descriptor constructor has failed
  sdOp,         \* history: the last descriptor operation and its result
  gcCalls,      \* history: the calls of GCHooks::allocate, in order
  newOp,        \* history: the last new or delete of a Newable object
  sizeofOp,     \* history: the last sizeof taken of a Handle type
  lexer,        \* Lexer: _state, _offset, _line, _column
  lexFatal,     \* an ARW_ASSERT of the lexer has failed
  input,        \* history: the characters given to lex so far
  lexLog,       \* history: the Receiver callbacks made so far
  stateLog,     \* history: _state before each character given so far
  endedAt       \* history: the index of the character that ended lexing

poolVars == <<_map, poolFatal, addCalls, removeCalls, poolOp, firstDesc, iter>>
stackVars == <<_vec, stackFatal, heldRefs, staleRefs, stackOp>>
regVars == <<cache, heap, regStack, regFatal, regPhase, regResult, handedOut,
             handedRaw,
             uninitRead, allocCount, initCount, retCount, returned, lastCall,
             lookups, lastSlot>>
handleVars == <<hType, handles, readNull, writeNull, hookLog, gcLog,
                createdCount, destroyedCount, hOp>>
sdVars == <<DEBUG, obj, sdFatal, sdOp>>
\* The components added after the handles.
newVars == <<gcCalls, newOp>>
layoutVars == <<sizeofOp>>
lexVars == <<lexer, lexFatal, input, lexLog, stateLog, endedAt>>
extVars == <<sdVars, newVars, layoutVars, lexVars>>

(***************************************************************************)
(* Bounds                                                                  *)
(***************************************************************************)
NumData == 2        \* identities handed to the pool
NumDescs == 2       \* descriptors handed to the pool
MaxAdds == 4        \* add calls that return, in one run
MaxStack == 3       \* entries on the shadow stack
MaxLookups == 4     \* outermost lookups of the registry
MaxDepth == 9       \* nested calls of a factory
NumHandles == 2     \* handles constructed in one run
MaxSlots == 2       \* slots in a list the program hands to init
MaxAllocs == 3      \* objects allocated with Newable's operator new
MaxSizeofT == 8     \* sizeof of the types a Handle is instantiated with
MaxInput == 5       \* characters given to the lexer
MaxNumberInput == 6 \* characters given to the lexer when it lexes a number

Data == 0 .. (NumData - 1)
Descriptor == 0 .. (NumDescs - 1)
StackEntry == {0, 1} \X {0, 1}

(***************************************************************************)
(* PersistentPool  (persistent_pool.h)                                     *)
(***************************************************************************)

\* std::map::insert: the map afterwards and whether the key was inserted.
MapInsert(m, k, v) ==
  IF k \in DOMAIN m
    THEN [map |-> m, second |-> FALSE]
    ELSE [map |-> [x \in (DOMAIN m) \cup {k} |-> IF x = k THEN v ELSE m[x]],
          second |-> TRUE]

\* An erase of a range: the key and every key before it.
MapEraseThrough(m, k) == [x \in {y \in DOMAIN m : y > k} |-> m[x]]

\* std::map::erase of an existing key.
MapErase(m, k) == [x \in (DOMAIN m) \ {k} |-> m[x]]

\* A plausible slip in add: the refcount of an existing entry is not incremented.
PoolAddNoIncrement(m, data, desc) ==
  LET i == MapInsert(m, data, [first |-> desc, second |-> 1])
  IN  IF i.second
        THEN [map |-> i.map, fatal |-> FALSE]
        ELSE IF m[data].first = desc
               THEN [map |-> m, fatal |-> FALSE]
               ELSE [map |-> m, fatal |-> TRUE]

\* An add that increments the refcount before it checks the descriptor.
PoolAddChecksAfterIncrement(m, data, desc) ==
  LET i == MapInsert(m, data, [first |-> desc, second |-> 1])
  IN  IF i.second
        THEN [map |-> i.map, fatal |-> FALSE]
        ELSE [map |-> [m EXCEPT ![data].second = @ + 1],
              fatal |-> m[data].first # desc]

\* An add that takes the new descriptor instead of checking it.
PoolAddOverwrites(m, data, desc) ==
  LET i == MapInsert(m, data, [first |-> desc, second |-> 1])
  IN  IF i.second
        THEN [map |-> i.map, fatal |-> FALSE]
        ELSE [map |-> [m EXCEPT ![data] = [first |-> desc, second |-> @.second + 1]],
              fatal |-> FALSE]

\* PersistentPool::add: the map afterwards, or the failed ARW_CHECK.
PoolAdd(m, data, desc) ==
  LET i == MapInsert(m, data, [first |-> desc, second |-> 1])
  IN  IF i.second
        THEN [map |-> i.map, fatal |-> FALSE]
        ELSE IF m[data].first = desc
               THEN [map |-> [m EXCEPT ![data].second = @ + 1], fatal |-> FALSE]
               ELSE [map |-> m, fatal |-> TRUE]

\* A remove that takes an absent identity for one already removed.
PoolRemoveIgnoresAbsent(m, data) ==
  IF data \notin DOMAIN m
    THEN [map |-> m, fatal |-> FALSE]
    ELSE LET dec == [m EXCEPT ![data].second = @ - 1]
         IN  IF dec[data].second = 0
               THEN [map |-> MapErase(dec, data), fatal |-> FALSE]
               ELSE [map |-> dec, fatal |-> FALSE]

\* PersistentPool::remove: the map afterwards, or the failed ARW_CHECK.
PoolRemove(m, data) ==
  IF data \notin DOMAIN m
    THEN [map |-> m, fatal |-> TRUE]
    ELSE LET dec == [m EXCEPT ![data].second = @ - 1]
         IN  IF dec[data].second = 0
               THEN [map |-> MapErase(dec, data), fatal |-> FALSE]
               ELSE [map |-> dec, fatal |-> FALSE]

\* PersistentPool::empty
PoolEmpty == DOMAIN _map = {}

\* _map.end(), the past-the-end position of the map's iterators.
End == -1

\* No descriptor: no add of the identity has returned yet.
NoDesc == -1

\* What a read of the map's past-the-end node can find where a value_type
\* would be: any pair, also one that looks like an entry.
GarbageV == (Descriptor \X Data) \cup {<<-1, -1>>}

\* _map.begin(): the smallest key (std::map iterates in key order).
MapBegin(m) ==
  IF DOMAIN m = {} THEN End
  ELSE CHOOSE k \in DOMAIN m : \A j \in DOMAIN m : k <= j

\* ++_i on a map iterator at key k.
MapNext(m, k) ==
  LET above == {j \in DOMAIN m : j > k}
  IN  IF above = {} THEN End
      ELSE CHOOSE j \in above : \A l \in above : j <= l

\* An update() that pairs the identity with its refcount.
IteratorUpdateTakesRefcount(m, i, garbage) ==
  IF i = End THEN garbage ELSE <<m[i].second, i>>

\* const_iterator::update: _v = (descriptor, identity) of the entry at _i;
\* at _map.end() it reads what is not an entry.
IteratorUpdate(m, i, garbage) ==
  IF i = End THEN garbage ELSE <<m[i].first, i>>

\* No iterator exists.
NoIter == [phase |-> "idle", _i |-> End, _v |-> <<-1, -1>>,
           yielded |-> <<>>, pastEndRead |-> FALSE]

\* The add calls that have returned so far.
RECURSIVE SumTo(_, _)
SumTo(f, n) == IF n < 0 THEN 0 ELSE f[n] + SumTo(f, n - 1)

PersistentPool_add(data, desc) ==
  /\ ~poolFatal
  /\ SumTo(addCalls, NumData - 1) < MaxAdds
  /\ LET r == PoolAdd(_map, data, desc)
     IN  /\ _map' = r.map
         /\ poolFatal' = r.fatal
         /\ addCalls' = IF r.fatal THEN addCalls
                        ELSE [addCalls EXCEPT ![data] = @ + 1]
         /\ firstDesc' = IF r.fatal \/ firstDesc[data] # NoDesc THEN firstDesc
                         ELSE [firstDesc EXCEPT ![data] = desc]
  /\ poolOp' = [op |-> "add", data |-> data, desc |-> desc, before |-> _map]
  /\ iter' = NoIter
  /\ UNCHANGED removeCalls
  /\ UNCHANGED <<stackVars, regVars, handleVars, extVars>>

PersistentPool_remove(data) ==
  /\ ~poolFatal
  /\ LET r == PoolRemove(_map, data)
     IN  /\ _map' = r.map
         /\ poolFatal' = r.fatal
         /\ removeCalls' = IF r.fatal THEN removeCalls
                           ELSE [removeCalls EXCEPT ![data] = @ + 1]
  /\ poolOp' = [op |-> "remove", data |-> data, desc |-> NoDesc, before |-> _map]
  /\ iter' = NoIter
  /\ UNCHANGED <<addCalls, firstDesc>>
  /\ UNCHANGED <<stackVars, regVars, handleVars, extVars>>

\* for (auto val : p): begin() and end() build the two iterators, each
\* running update(); the one end() builds runs it at _map.end().  The loop
\* only compares with the end iterator: the _v it read is not kept here.
PersistentPool_rangeFor(garbage) ==
  /\ ~poolFatal
  /\ iter.phase # "iterating"
  /\ LET b == MapBegin(_map)
     IN  iter' = [phase |-> "iterating", _i |-> b,
                  _v |-> IteratorUpdate(_map, b, garbage),
                  yielded |-> <<>>, pastEndRead |-> TRUE]
  /\ UNCHANGED <<_map, poolFatal, addCalls, removeCalls, poolOp, firstDesc>>
  /\ UNCHANGED <<stackVars, regVars, handleVars, extVars>>

\* One turn of the loop: it != end, val = *it, the body, ++it.  The body
\* does not change the pool; an add or remove is made after the loop was
\* left.  The iterators are gone when the loop is left.
PersistentPool_loopStep(garbage) ==
  /\ ~poolFatal
  /\ iter.phase = "iterating"
  /\ IF iter._i = End
       THEN iter' = [iter EXCEPT !.phase = "done", !._v = NoIter._v]
       ELSE LET n == MapNext(_map, iter._i)
            IN  iter' = [iter EXCEPT !.yielded = Append(@, iter._v),
                                     !._i = n,
                                     !._v = IteratorUpdate(_map, n, garbage)]
  /\ UNCHANGED <<_map, poolFatal, addCalls, removeCalls, poolOp, firstDesc>>
  /\ UNCHANGED <<stackVars, regVars, handleVars, extVars>>

InitPool ==
  /\ _map = <<>>
  /\ poolFatal = FALSE
  /\ addCalls = [x \in Data |-> 0]
  /\ removeCalls = [x \in Data |-> 0]
  /\ poolOp = [op |-> "none", data |-> 0, desc |-> NoDesc, before |-> <<>>]
  /\ firstDesc = [x \in Data |-> NoDesc]
  /\ iter = NoIter

NextPool ==
  \/ \E data \in Data, desc \in Descriptor : PersistentPool_add(data, desc)
  \/ \E data \in Data : PersistentPool_remove(data)

\* The pool with a collector enumerating its roots between the calls.
NextPoolIter ==
  \/ \E data \in Data, desc \in Descriptor : PersistentPool_add(data, desc)
  \/ \E data \in Data : PersistentPool_remove(data)
  \/ \E garbage \in GarbageV : PersistentPool_rangeFor(garbage)
  \/ \E garbage \in GarbageV : PersistentPool_loopStep(garbage)

(***************************************************************************)
(* LocalStack  (local_stack.h)                                             *)
(***************************************************************************)

\* std::vector::resize(r): truncation, or growth by value-initialised pairs.
VecResize(v, r) ==
  IF r <= Len(v)
    THEN SubSeq(v, 1, r)
    ELSE v \o [i \in 1 .. (r - Len(v)) |-> <<0, 0>>]

\* A plausible slip in popTo: one entry too many is discarded.
StackPopToOffByOne(v, r) ==
  IF Len(v) >= r
    THEN [vec |-> VecResize(v, IF r > 0 THEN r - 1 ELSE 0), fatal |-> FALSE]
    ELSE [vec |-> v, fatal |-> TRUE]

\* A popTo without its check: resize alone, which also grows the vector.
StackPopToUnchecked(v, r) == [vec |-> VecResize(v, r), fatal |-> FALSE]

\* A popTo that takes nothing but the current top.
StackPopToOnlyTop(v, r) ==
  IF Len(v) = r
    THEN [vec |-> v, fatal |-> FALSE]
    ELSE [vec |-> v, fatal |-> TRUE]

\* LocalStack::popTo: the vector afterwards, or the failed ARW_CHECK.
StackPopTo(v, r) ==
  IF Len(v) >= r
    THEN [vec |-> VecResize(v, r), fatal |-> FALSE]
    ELSE [vec |-> v, fatal |-> TRUE]

\* LocalStack::top
StackTop(v) == Len(v)

\* A push that puts the new entry first.
StackPushFront(vec, v) == <<v>> \o vec

\* LocalStack::push: _vec.push_back(v).
StackPush(vec, v) == Append(vec, v)

\* LocalStack::begin .. LocalStack::end: the vector's own iterators, which
\* yield its elements from the first index to the last.
StackIterate(vec) == [i \in 1 .. Len(vec) |-> vec[i]]

\* No entry: the operation was given none.
NoEntry == <<-1, -1>>

LocalStack_top ==
  /\ ~stackFatal
  /\ heldRefs' = heldRefs \cup {StackTop(_vec)}
  /\ stackOp' = [op |-> "top", r |-> StackTop(_vec), before |-> _vec,
                 v |-> NoEntry]
  /\ UNCHANGED <<_vec, stackFatal, staleRefs>>
  /\ UNCHANGED <<poolVars, regVars, handleVars, extVars>>

LocalStack_push(v) ==
  /\ ~stackFatal
  /\ Len(_vec) < MaxStack
  /\ _vec' = StackPush(_vec, v)
  /\ stackOp' = [op |-> "push", r |-> 0, before |-> _vec, v |-> v]
  /\ UNCHANGED <<stackFatal, heldRefs, staleRefs>>
  /\ UNCHANGED <<poolVars, regVars, handleVars, extVars>>

LocalStack_popTo(r) ==
  /\ ~stackFatal
  /\ LET res == StackPopTo(_vec, r)
     IN  /\ _vec' = res.vec
         /\ stackFatal' = res.fatal
         /\ staleRefs' = staleRefs \cup {h \in heldRefs : h > Len(res.vec)}
  /\ stackOp' = [op |-> "popTo", r |-> r, before |-> _vec, v |-> NoEntry]
  /\ UNCHANGED heldRefs
  /\ UNCHANGED <<poolVars, regVars, handleVars, extVars>>

LocalStack_clear ==
  /\ ~stackFatal
  /\ _vec' = <<>>
  /\ stackOp' = [op |-> "clear", r |-> 0, before |-> _vec, v |-> NoEntry]
  /\ staleRefs' = staleRefs \cup {h \in heldRefs : h > 0}
  /\ UNCHANGED <<stackFatal, heldRefs>>
  /\ UNCHANGED <<poolVars, regVars, handleVars, extVars>>

InitStack ==
  /\ _vec = <<>>
  /\ stackFatal = FALSE
  /\ heldRefs = {}
  /\ staleRefs = {}
  /\ stackOp = [op |-> "none", r |-> 0, before |-> <<>>, v |-> NoEntry]

NextStack ==
  \/ LocalStack_top
  \/ \E v \in StackEntry : LocalStack_push(v)
  \/ \E r \in heldRefs : LocalStack_popTo(r)
  \/ LocalStack_clear

(***************************************************************************)
(* StorageDescriptor  (storage_descriptor.h)                               *)
(***************************************************************************)

\* enum class HandleType
VALUE == "VALUE"
REFERENCE == "REFERENCE"
WEAK == "WEAK"
HandleType == {VALUE, REFERENCE, WEAK}

\* Addresses: nullptr, the static sentinel StorageDescriptor::boxed, and
\* the blocks that new char[] returns (FreshPtr below).
Null == 0
boxed == 1

\* sizeof(StorageDescriptor) and sizeof(Slot) on an LP64 build.
SizeofSD == 48
SizeofSlot == 24

\* An objectSize that counts one byte for each slot.
objectSizeOneBytePerSlot(numValues) == SizeofSD + numValues

\* StorageDescriptor::objectSize
objectSize(numValues) == SizeofSD + SizeofSlot * numValues

\* Slot memory that no constructor has written.
NoSlot == [storageDescriptor |-> Null, type |-> "unwritten", offset |-> 0]

\* Slot::empty
SlotEmpty == [storageDescriptor |-> boxed, type |-> REFERENCE, offset |-> 0]

\* StorageDescriptor::isBoxed: this == &boxed.
IsBoxed(p) == p = boxed

\* Whether the descriptor at address p has been constructed.
IsInitialised(h, p) == p = boxed \/ (p \in DOMAIN h /\ h[p].inited)

\* A Slot constructor that stores the null pointer it was given.
SlotCtorKeepsNull(h, storageDescriptor_, type_, offset_, garbage) ==
  LET sd == storageDescriptor_
      check1 == sd # boxed \/ type_ # VALUE
      hasArr == IF sd \in {Null, boxed} THEN FALSE
                ELSE IF h[sd].inited THEN h[sd]._hasArray ELSE garbage
      check2 == type_ # VALUE \/ ~hasArr
  IN  [slot |-> [storageDescriptor |-> sd, type |-> type_, offset |-> offset_],
       fatal |-> ~check1 \/ ~check2,
       uninitRead |-> FALSE]

\* Slot::Slot.  The first ARW_CHECK compares addresses only.  The second
\* one calls storageDescriptor->hasArray() when the discipline is VALUE
\* (|| short-circuits otherwise); on memory that init has not yet written
\* the value read is indeterminate: garbage.
SlotCtor(h, storageDescriptor_, type_, offset_, garbage) ==
  LET sd == IF storageDescriptor_ = Null THEN boxed ELSE storageDescriptor_
      check1 == sd # boxed \/ type_ # VALUE
      readsHasArray == check1 /\ type_ = VALUE
      hasArr == IF sd = boxed THEN FALSE
                ELSE IF h[sd].inited THEN h[sd]._hasArray ELSE garbage
      check2 == type_ # VALUE \/ ~hasArr
  IN  [slot |-> [storageDescriptor |-> sd, type |-> type_, offset |-> offset_],
       fatal |-> ~check1 \/ ~check2,
       uninitRead |-> readsHasArray /\ ~IsInitialised(h, sd)]

\* The constructor's loop: every slot is placement-constructed at
\* _values.get()[numValues], where get() is a pointer to Slot[0], an array
\* of size 0, so each index is the same address: the first slot position.
\* cap is the number of Slot positions the allocation holds.
PlaceSlots(cap, slots) ==
  [i \in 1 .. cap |-> IF i = 1 /\ Len(slots) > 0 THEN slots[Len(slots)]
                      ELSE NoSlot]

\* Raw memory of the given size, as new char[size] returns it.
RawBlock(bytes) ==
  [bytes |-> bytes, inited |-> FALSE, _sizeWithEmptyArray |-> 0,
   _hasArray |-> FALSE, _array |-> NoSlot, _numValues |-> 0,
   _values |-> [i \in 1 .. ((bytes - SizeofSD) \div SizeofSlot) |-> NoSlot]]

\* An init that leaves the block marked as not constructed.
InitSDForgets(block, sizeWithEmptyArray, hasArray, array, slots) == block

\* StorageDescriptor::init (the private constructor run in place).
InitSD(block, sizeWithEmptyArray, hasArray, array, slots) ==
  [bytes |-> block.bytes, inited |-> TRUE,
   _sizeWithEmptyArray |-> sizeWithEmptyArray,
   _hasArray |-> hasArray, _array |-> array, _numValues |-> Len(slots),
   _values |-> PlaceSlots(Len(block._values), slots)]

\* The ARW_ASSERT at the end of the constructor (DEBUG builds only).
InitAssertHolds(sizeWithEmptyArray, hasArray, slots) ==
  sizeWithEmptyArray # 0 \/ (~hasArray /\ Len(slots) = 0)

(***************************************************************************)
(* The registry  (type_storage.h: ARW_DEFINE_STORAGE_*, TypeStorage)       *)
(***************************************************************************)

\* The first argument each registration macro hands to
\* ARW_DEFINE_STORAGE_BEGIN, and whether it declares an array part.
MacroN(macro) ==
  CASE macro = "ARW_DEFINE_STORAGE_0" -> 1
    [] macro = "ARW_DEFINE_STORAGE_ARR_0" -> 1
    [] macro = "ARW_DEFINE_STORAGE_1" -> 1
    [] macro = "ARW_DEFINE_STORAGE_ARR_1" -> 1
    [] macro = "ARW_DEFINE_STORAGE_2" -> 2
    [] macro = "ARW_DEFINE_STORAGE_ARR_2" -> 2

MacroHasArray(macro) ==
  macro \in {"ARW_DEFINE_STORAGE_ARR_0", "ARW_DEFINE_STORAGE_ARR_1",
             "ARW_DEFINE_STORAGE_ARR_2"}

\* The registered types: those of the tests (Members0, Members1, Members2,
\* Circular), the two the library registers for itself (Slot, with a strong
\* reference to StorageDescriptor, and StorageDescriptor, with the VALUE
\* member _array of type Slot and the array _values of Slot), and Observer,
\* a type with a weak reference to itself.  Buffer and Holder are a
\* variable-size type with a strong reference to Holder and a type that
\* holds a Buffer by value: the by-value slot for a variable-size type
\* that Slot's constructor is to reject.  size is sizeof(klass);
\* members are the handle members in declaration order, each with the type
\* slot() looks up (V::value_type, const dropped), V::handleType and the
\* member's offset; array is the element type arraySlot() looks up.
\* handleType is the discipline arraySlot() takes from the declaring class
\* (U::handleType); StorageDescriptor declares none, so the discipline of
\* its array member _values (a MemberVal) stands for it.  Only classes
\* registered with an _ARR_ macro use it.
TypeOrder == <<"Members0", "Members1", "Members2", "Circular", "Observer",
               "Slot", "StorageDescriptor", "Buffer", "Holder">>
Types == {TypeOrder[i] : i \in 1 .. Len(TypeOrder)}

Registered ==
  [t \in Types |->
    CASE t = "Members0" ->
           [macro |-> "ARW_DEFINE_STORAGE_0", size |-> 1, handleType |-> VALUE,
            array |-> "none", members |-> <<>>]
      [] t = "Members1" ->
           [macro |-> "ARW_DEFINE_STORAGE_1", size |-> 8, handleType |-> VALUE,
            array |-> "none",
            members |-> <<[type |-> "Members0", handleType |-> REFERENCE,
                           offset |-> 0]>>]
      [] t = "Members2" ->
           [macro |-> "ARW_DEFINE_STORAGE_2", size |-> 16, handleType |-> VALUE,
            array |-> "none",
            members |-> <<[type |-> "Members0", handleType |-> REFERENCE,
                           offset |-> 0],
                          [type |-> "Members0", handleType |-> REFERENCE,
                           offset |-> 8]>>]
      [] t = "Circular" ->
           [macro |-> "ARW_DEFINE_STORAGE_1", size |-> 8, handleType |-> VALUE,
            array |-> "none",
            members |-> <<[type |-> "Circular", handleType |-> REFERENCE,
                           offset |-> 0]>>]
      [] t = "Observer" ->
           [macro |-> "ARW_DEFINE_STORAGE_1", size |-> 8, handleType |-> VALUE,
            array |-> "none",
            members |-> <<[type |-> "Observer", handleType |-> WEAK,
                           offset |-> 0]>>]
      [] t = "Slot" ->
           [macro |-> "ARW_DEFINE_STORAGE_1", size |-> 24, handleType |-> VALUE,
            array |-> "none",
            members |-> <<[type |-> "StorageDescriptor",
                           handleType |-> REFERENCE, offset |-> 0]>>]
      [] t = "StorageDescriptor" ->
           [macro |-> "ARW_DEFINE_STORAGE_ARR_1", size |-> 48,
            handleType |-> VALUE, array |-> "Slot",
            members |-> <<[type |-> "Slot", handleType |-> VALUE,
                           offset |-> 16]>>]
      [] t = "Buffer" ->
           [macro |-> "ARW_DEFINE_STORAGE_ARR_1", size |-> 8,
            handleType |-> REFERENCE, array |-> "Members0",
            members |-> <<[type |-> "Holder", handleType |-> REFERENCE,
                           offset |-> 0]>>]
      [] t = "Holder" ->
           [macro |-> "ARW_DEFINE_STORAGE_1", size |-> 8, handleType |-> VALUE,
            array |-> "none",
            members |-> <<[type |-> "Buffer", handleType |-> VALUE,
                           offset |-> 0]>>]]

TypeIndex(t) == CHOOSE i \in 1 .. Len(TypeOrder) : TypeOrder[i] = t

\* The address new char[] returns: a block no earlier allocation got.
FreshPtr(t) == boxed + TypeIndex(t) + Len(TypeOrder) * allocCount[t]

\* if (_arw_macro_storage) return _arw_macro_storage.get();
\* read as "cached only once initialised": the pointer is stored after init.
IsCachedAfterInit(t) == cache[t] # Null /\ heap[cache[t]].inited

\* The test of the cache lost: every call allocates.
IsCachedNever(t) == FALSE

\* if (_arw_macro_storage): the pointer is stored as soon as it is allocated.
IsCached(t) == cache[t] # Null

\* A new activation of get() for klass, past the allocation.
NewFrame(klass) ==
  [klass |-> klass, arrDone |-> ~MacroHasArray(Registered[klass].macro),
   arr |-> SlotEmpty, built |-> <<>>, waiting |-> "none"]

\* The frame with the Slot for item ("arr" or "member") stored.
WithSlot(f, item, slot) ==
  IF item = "arr"
    THEN [f EXCEPT !.arrDone = TRUE, !.arr = slot, !.waiting = "none"]
    ELSE [f EXCEPT !.built = Append(@, slot), !.waiting = "none"]

\* What TypeStorage::arraySlot / TypeStorage::slot ask for, for the next
\* argument of the frame: the type looked up, the discipline and the offset
\* (the array is the trailing member: its offset is taken as sizeof(klass)).
ItemRequest(f, item) ==
  LET d == Registered[f.klass]
  IN  IF item = "arr"
        THEN [type |-> d.array, handleType |-> d.handleType, offset |-> d.size]
        ELSE d.members[Len(f.built) + 1]

\* The arguments of SD::init still to be evaluated.  The array argument and
\* the braced slot list are unsequenced to each other; the slots of the
\* list are built left to right.
PendingItems(f) ==
  (IF f.arrDone THEN {} ELSE {"arr"})
    \cup (IF Len(f.built) < Len(Registered[f.klass].members)
            THEN {"member"} ELSE {})

RegTop == regStack[Len(regStack)]

\* The program has constructed no Slot of its own.
NoSlotBuilt == [built |-> FALSE, arg |-> Null, slot |-> NoSlot, fatal |-> FALSE]

\* The offsets the program gives the Slots it constructs itself.
Offsets == {0, 5}

\* arw::storageDescriptor<T>() called from outside any lookup.
Registry_lookup(t) ==
  /\ ~regFatal
  /\ regStack = <<>>
  /\ lookups < MaxLookups
  /\ lookups' = lookups + 1
  /\ IF IsCached(t)
       THEN /\ regPhase' = "returned"
            /\ regResult' = [klass |-> t, ptr |-> cache[t]]
            /\ handedOut' = {cache[t]}
            /\ handedRaw' = {}
            /\ retCount' = [retCount EXCEPT ![t] = @ + 1]
            /\ returned' = [returned EXCEPT ![t] = @ \cup {cache[t]}]
            /\ lastCall' = [klass |-> t, cached |-> TRUE, nested |-> FALSE,
                            inProgress |-> FALSE]
            /\ UNCHANGED <<cache, heap, regStack, allocCount>>
       ELSE /\ regPhase' = "running"
            /\ cache' = [cache EXCEPT ![t] = FreshPtr(t)]
            /\ heap' = [p \in (DOMAIN heap) \cup {FreshPtr(t)} |->
                          IF p = FreshPtr(t)
                            THEN RawBlock(objectSize(MacroN(Registered[t].macro)))
                            ELSE heap[p]]
            /\ allocCount' = [allocCount EXCEPT ![t] = @ + 1]
            /\ regStack' = <<NewFrame(t)>>
            /\ handedOut' = {}
            /\ handedRaw' = {}
            /\ lastCall' = [klass |-> t, cached |-> FALSE, nested |-> FALSE,
                            inProgress |-> FALSE]
            /\ UNCHANGED <<regResult, retCount, returned>>
  /\ lastSlot' = NoSlotBuilt
  /\ UNCHANGED <<regFatal, uninitRead, initCount>>
  /\ UNCHANGED <<poolVars, stackVars, handleVars, extVars>>

\* One argument of SD::init is evaluated: TypeStorage::slot or arraySlot
\* calls get() of the member's type.  A cached pointer comes back at once
\* and the Slot is constructed; otherwise the callee allocates, caches and
\* starts on its own arguments.
Registry_evalArg(item, garbage) ==
  /\ ~regFatal
  /\ regStack # <<>>
  /\ Len(regStack) < MaxDepth
  /\ RegTop.waiting = "none"
  /\ item \in PendingItems(RegTop)
  /\ LET req == ItemRequest(RegTop, item)
         t == req.type
         n == Len(regStack)
     IN  IF IsCached(t)
           THEN LET c == SlotCtor(heap, cache[t], req.handleType, req.offset,
                                  garbage)
                IN  /\ regFatal' = c.fatal
                    /\ uninitRead' = (uninitRead \/ c.uninitRead)
                    /\ regStack' = IF c.fatal THEN regStack
                                   ELSE [regStack EXCEPT
                                           ![n] = WithSlot(@, item, c.slot)]
                    /\ handedOut' = handedOut \cup {cache[t]}
                    /\ handedRaw' = IF heap[cache[t]].inited THEN handedRaw
                                    ELSE handedRaw \cup {cache[t]}
                    /\ returned' = [returned EXCEPT ![t] = @ \cup {cache[t]}]
                    /\ lastCall' = [klass |-> t, cached |-> TRUE,
                                    nested |-> TRUE,
                                    inProgress |->
                                      \E i \in 1 .. n : regStack[i].klass = t]
                    /\ UNCHANGED <<cache, heap, allocCount>>
           ELSE /\ cache' = [cache EXCEPT ![t] = FreshPtr(t)]
                /\ heap' = [p \in (DOMAIN heap) \cup {FreshPtr(t)} |->
                              IF p = FreshPtr(t)
                                THEN RawBlock(objectSize(MacroN(Registered[t].macro)))
                                ELSE heap[p]]
                /\ allocCount' = [allocCount EXCEPT ![t] = @ + 1]
                /\ regStack' = Append([regStack EXCEPT ![n].waiting = item],
                                      NewFrame(t))
                /\ lastCall' = [klass |-> t, cached |-> FALSE, nested |-> TRUE,
                                inProgress |->
                                  \E i \in 1 .. n : regStack[i].klass = t]
                /\ UNCHANGED <<regFatal, uninitRead, handedOut, handedRaw,
                               returned>>
  /\ UNCHANGED <<regPhase, regResult, initCount, retCount, lookups, lastSlot>>
  /\ UNCHANGED <<poolVars, stackVars, handleVars, extVars>>

\* All arguments are evaluated: SD::init constructs the descriptor in the
\* cached block and get() returns the pointer, to the caller's Slot
\* constructor or, for the outermost call, to the program.
Registry_return(garbage) ==
  /\ ~regFatal
  /\ regStack # <<>>
  /\ RegTop.waiting = "none"
  /\ PendingItems(RegTop) = {}
  /\ LET f == RegTop
         t == f.klass
         d == Registered[t]
         p == cache[t]
         n == Len(regStack)
         h2 == [heap EXCEPT ![p] = InitSD(@, d.size, MacroHasArray(d.macro),
                                          f.arr, f.built)]
     IN  /\ heap' = h2
         /\ initCount' = [initCount EXCEPT ![t] = @ + 1]
         /\ returned' = [returned EXCEPT ![t] = @ \cup {p}]
         /\ handedOut' = handedOut \cup {p}
         /\ IF n = 1
              THEN /\ regStack' = <<>>
                   /\ regPhase' = "returned"
                   /\ regResult' = [klass |-> t, ptr |-> p]
                   /\ retCount' = [retCount EXCEPT ![t] = @ + 1]
                   /\ UNCHANGED <<regFatal, uninitRead>>
              ELSE LET caller == regStack[n - 1]
                       req == ItemRequest(caller, caller.waiting)
                       c == SlotCtor(h2, p, req.handleType, req.offset, garbage)
                   IN  /\ regFatal' = c.fatal
                       /\ uninitRead' = (uninitRead \/ c.uninitRead)
                       /\ regStack' =
                            IF c.fatal THEN SubSeq(regStack, 1, n - 1)
                            ELSE [SubSeq(regStack, 1, n - 1) EXCEPT
                                    ![n - 1] = WithSlot(@, caller.waiting, c.slot)]
                       /\ UNCHANGED <<regPhase, regResult, retCount>>
  /\ UNCHANGED <<cache, allocCount, lastCall, lookups, handedRaw, lastSlot>>
  /\ UNCHANGED <<poolVars, stackVars, handleVars, extVars>>

\* The program constructs a Slot itself, outside any lookup, for a
\* descriptor a lookup has returned to it (an initialised one: nothing
\* indeterminate is read) or for nullptr (boxed storage).
Slot_construct(t, type_, offset_) ==
  /\ ~regFatal
  /\ regStack = <<>>
  /\ t # "none" => (IsCached(t) /\ heap[cache[t]].inited)
  /\ LET arg == IF t = "none" THEN Null ELSE cache[t]
         c == SlotCtor(heap, arg, type_, offset_, FALSE)
     IN  /\ lastSlot' = [built |-> TRUE, arg |-> arg, slot |-> c.slot,
                         fatal |-> c.fatal]
         /\ regFatal' = c.fatal
         /\ uninitRead' = (uninitRead \/ c.uninitRead)
  /\ UNCHANGED <<cache, heap, regStack, regPhase, regResult, handedOut,
                 handedRaw, allocCount, initCount, retCount, returned,
                 lastCall, lookups>>
  /\ UNCHANGED <<poolVars, stackVars, handleVars, extVars>>

InitRegistry ==
  /\ lastSlot = NoSlotBuilt
  /\ cache = [t \in Types |-> Null]
  /\ heap = <<>>
  /\ regStack = <<>>
  /\ regFatal = FALSE
  /\ regPhase = "idle"
  /\ regResult = [klass |-> "none", ptr |-> Null]
  /\ handedOut = {}
  /\ handedRaw = {}
  /\ uninitRead = FALSE
  /\ allocCount = [t \in Types |-> 0]
  /\ initCount = [t \in Types |-> 0]
  /\ retCount = [t \in Types |-> 0]
  /\ returned = [t \in Types |-> {}]
  /\ lastCall = [klass |-> "none", cached |-> FALSE, nested |-> FALSE,
                 inProgress |-> FALSE]
  /\ lookups = 0

RegistryStep ==
  \/ \E item \in {"arr", "member"}, garbage \in BOOLEAN :
       Registry_evalArg(item, garbage)
  \/ \E garbage \in BOOLEAN : Registry_return(garbage)

NextRegistry ==
  \/ \E t \in Types : Registry_lookup(t)
  \/ \E item \in {"arr", "member"}, garbage \in BOOLEAN :
       Registry_evalArg(item, garbage)
  \/ \E garbage \in BOOLEAN : Registry_return(garbage)

\* The registry with a program that also constructs Slots of its own.
NextSlots ==
  \/ \E t \in Types : Registry_lookup(t)
  \/ \E item \in {"arr", "member"}, garbage \in BOOLEAN :
       Registry_evalArg(item, garbage)
  \/ \E garbage \in BOOLEAN : Registry_return(garbage)
  \/ \E t \in Types \cup {"none"}, type_ \in HandleType, offset_ \in Offsets :
       Slot_construct(t, type_, offset_)

(***************************************************************************)
(* Handle and its hook sets  (handle.h, member_handle_hooks.h)             *)
(***************************************************************************)

HandleIds == 1 .. NumHandles      \* the addresses handles are built at
Vals == {0, 1, 2}                 \* a T, or a T* with Null = 0

\* One call of a hook: the function, the handle (or storage) address it
\* was given, the value it was given, what it returned and what it left
\* in the storage.
HookCall(fn, ptr, val, ret, stored) ==
  [fn |-> fn, ptr |-> ptr, val |-> val, ret |-> ret, stored |-> stored]

\* MockGCHooks::read and MockGCHooks::write, the collector of the tests:
\* _readNull makes every read return nullptr, _writeNull makes every write
\* store nullptr.
GCHooks_read(ptr, stored) ==
  HookCall("read", ptr, Null, IF readNull THEN Null ELSE stored, stored)

GCHooks_write(ptr, value) ==
  HookCall("write", ptr, value, Null, IF writeNull THEN Null ELSE value)

\* MemberHandleHooks::read and ::write: each forwards to the collector.
\* The result is the hook's own call record and the collector calls made.
MemberHandleHooks_read(ptr, stored) ==
  LET g == GCHooks_read(ptr, stored)
  IN  [call |-> HookCall("read", ptr, Null, g.ret, g.stored), gc |-> <<g>>]

MemberHandleHooks_write(ptr, value) ==
  LET g == GCHooks_write(ptr, value)
  IN  [call |-> HookCall("write", ptr, value, Null, g.stored), gc |-> <<g>>]

\* Handle::wasCreated and Handle::wasDestroyed
WasCreated(h) == <<HookCall("created", h, Null, Null, Null)>>
WasDestroyed(h) == <<HookCall("destroyed", h, Null, Null, Null)>>

\* A move constructor that forgets wasCreated().
HandleCtorMoveSkipsCreated(kind, h, init) ==
  [data |-> init, hooks |-> IF kind = "move" THEN <<>> ELSE WasCreated(h),
   gc |-> <<>>]

\* A copy and a move constructor that take what the collector's read
\* returns for the source instead of the source's _data.
HandleCtorCopiesThroughRead(kind, h, init) ==
  [data |-> IF kind \in {"copy", "move"} /\ hType # VALUE /\ readNull
              THEN Null ELSE init,
   hooks |-> WasCreated(h), gc |-> <<>>]

\* The five constructors: _data is initialised from init (for the default
\* constructor: whatever the memory held) and wasCreated() is called.
HandleCtor(kind, h, init) ==
  [data |-> init, hooks |-> WasCreated(h), gc |-> <<>>]

\* ~Handle
HandleDtor(h) == [hooks |-> WasDestroyed(h), gc |-> <<>>]

\* A get() that calls the barrier twice.
HandleGetReadsTwice(type, h, data) ==
  IF type = VALUE
    THEN [result |-> data, data |-> data, hooks |-> <<>>, gc |-> <<>>]
    ELSE LET r == MemberHandleHooks_read(h, data)
         IN  [result |-> r.call.ret, data |-> r.call.stored,
              hooks |-> <<r.call, r.call>>, gc |-> r.gc \o r.gc]

\* Handle::get: &_data for a VALUE handle (read here as the value found
\* there), Hooks::read(&_data) for the other two.
HandleGet(type, h, data) ==
  IF type = VALUE
    THEN [result |-> data, data |-> data, hooks |-> <<>>, gc |-> <<>>]
    ELSE LET r == MemberHandleHooks_read(h, data)
         IN  [result |-> r.call.ret, data |-> r.call.stored,
              hooks |-> <<r.call>>, gc |-> r.gc]

\* A write() that also stores the value itself after the barrier ran.
HandleWriteStoresItself(type, h, data, val) ==
  IF type = VALUE
    THEN [data |-> val, hooks |-> <<>>, gc |-> <<>>]
    ELSE LET w == MemberHandleHooks_write(h, val)
         IN  [data |-> val, hooks |-> <<w.call>>, gc |-> w.gc]

\* Handle::write: plain assignment of _data for a VALUE handle,
\* Hooks::write(&_data, val) for the other two.
HandleWrite(type, h, data, val) ==
  IF type = VALUE
    THEN [data |-> val, hooks |-> <<>>, gc |-> <<>>]
    ELSE LET w == MemberHandleHooks_write(h, val)
         IN  [data |-> w.call.stored, hooks |-> <<w.call>>, gc |-> w.gc]

\* The doc comment of operator bool taken at its word: "Returns true if
\* this is a dead weak pointer".
HandleBoolTrueWhenDead(h, data) ==
  LET g == HandleGet(WEAK, h, data)
  IN  [result |-> IF g.result = Null THEN 1 ELSE 0, data |-> g.data,
       hooks |-> g.hooks, gc |-> g.gc]

\* Handle::operator bool: !!get(), on a WEAK handle (static_assert).
HandleBool(h, data) ==
  LET g == HandleGet(WEAK, h, data)
  IN  [result |-> IF g.result # Null THEN 1 ELSE 0, data |-> g.data,
       hooks |-> g.hooks, gc |-> g.gc]

\* The number of calls of hook fn on handle h in a log.
Calls(log, fn, h) ==
  Cardinality({i \in 1 .. Len(log) : log[i].fn = fn /\ log[i].ptr = h})

Alive(h) == handles[h].state = "alive"

HandleFrame == UNCHANGED <<poolVars, stackVars, regVars, extVars>>

\* What one operation leaves behind: the log of its hook calls, the
\* lifetime counts and the record of the operation.
Logged(op, h, src, val, result, hooks, gc) ==
  /\ hookLog' = hooks
  /\ gcLog' = gc
  /\ createdCount' = [x \in HandleIds |->
                        createdCount[x] + Calls(hooks, "created", x)]
  /\ destroyedCount' = [x \in HandleIds |->
                          destroyedCount[x] + Calls(hooks, "destroyed", x)]
  /\ hOp' = [op |-> op, h |-> h, src |-> src, val |-> val, result |-> result]

\* Handle(), Handle(argument_type), Handle(storage_type&&): kind is
\* "default", "value" or "storage"; for "default" v is what the memory held.
Handle_construct(kind, h, v) ==
  /\ handles[h].state = "unborn"
  /\ LET c == HandleCtor(kind, h, v)
     IN  /\ handles' = [handles EXCEPT ![h] = [state |-> "alive", _data |-> c.data]]
         /\ Logged(kind, h, 0, v, Null, c.hooks, c.gc)
  /\ UNCHANGED <<hType, readNull, writeNull>>
  /\ HandleFrame

\* Handle(const Handle&) and Handle(Handle&&): kind is "copy" or "move".
Handle_constructFrom(kind, h, other) ==
  /\ handles[h].state = "unborn"
  /\ Alive(other)
  /\ LET c == HandleCtor(kind, h, handles[other]._data)
     IN  /\ handles' = [handles EXCEPT ![h] = [state |-> "alive", _data |-> c.data]]
         /\ Logged(kind, h, other, handles[other]._data, Null, c.hooks, c.gc)
  /\ UNCHANGED <<hType, readNull, writeNull>>
  /\ HandleFrame

Handle_destroy(h) ==
  /\ Alive(h)
  /\ LET d == HandleDtor(h)
     IN  /\ handles' = [handles EXCEPT ![h] = [state |-> "dead", _data |-> 0]]
         /\ Logged("destroy", h, 0, 0, Null, d.hooks, d.gc)
  /\ UNCHANGED <<hType, readNull, writeNull>>
  /\ HandleFrame

\* operator=(const Handle&) and operator=(Handle&&): kind is "assign" or
\* "moveAssign"; both hand other._data to write.
Handle_assignFrom(kind, h, other) ==
  /\ Alive(h)
  /\ Alive(other)
  /\ LET w == HandleWrite(hType, h, handles[h]._data, handles[other]._data)
     IN  /\ handles' = [handles EXCEPT ![h]._data = w.data]
         /\ Logged(kind, h, other, handles[other]._data, Null, w.hooks, w.gc)
  /\ UNCHANGED <<hType, readNull, writeNull>>
  /\ HandleFrame

\* operator=(argument_type) and operator=(storage_type&&): kind is
\* "assignValue" or "assignStorage".
Handle_assignValue(kind, h, v) ==
  /\ Alive(h)
  /\ LET w == HandleWrite(hType, h, handles[h]._data, v)
     IN  /\ handles' = [handles EXCEPT ![h]._data = w.data]
         /\ Logged(kind, h, 0, v, Null, w.hooks, w.gc)
  /\ UNCHANGED <<hType, readNull, writeNull>>
  /\ HandleFrame

\* get(), operator-> and operator*: via names which; operator* needs the
\* pointer it dereferences to be non-null.
Handle_get(via, h) ==
  /\ Alive(h)
  /\ LET g == HandleGet(hType, h, handles[h]._data)
     IN  /\ (via = "*" /\ hType # VALUE) => g.result # Null
         /\ handles' = [handles EXCEPT ![h]._data = g.data]
         /\ Logged(via, h, 0, 0, g.result, g.hooks, g.gc)
  /\ UNCHANGED <<hType, readNull, writeNull>>
  /\ HandleFrame

\* explicit operator bool, which exists for WEAK handles only: !!get().
Handle_bool(h) ==
  /\ hType = WEAK
  /\ Alive(h)
  /\ LET g == HandleBool(h, handles[h]._data)
     IN  /\ handles' = [handles EXCEPT ![h]._data = g.data]
         /\ Logged("bool", h, 0, handles[h]._data, g.result, g.hooks, g.gc)
  /\ UNCHANGED <<hType, readNull, writeNull>>
  /\ HandleFrame

\* LocalHandleHooks::created and ::destroyed, the hooks of Local handles:
\* both bodies are empty, the thread's stack is what it was.
LocalHandleHooks_created(vec, h) == vec

LocalHandleHooks_destroyed(vec, h) == vec

\* A Local handle is built (Handle(), Handle(argument_type) or
\* Handle(storage_type&&) with Hooks = LocalHandleHooks).
Local_construct(kind, h, v) ==
  /\ ~stackFatal
  /\ handles[h].state = "unborn"
  /\ LET c == HandleCtor(kind, h, v)
     IN  /\ handles' = [handles EXCEPT ![h] = [state |-> "alive", _data |-> c.data]]
         /\ Logged(kind, h, 0, v, Null, c.hooks, c.gc)
  /\ _vec' = LocalHandleHooks_created(_vec, h)
  /\ stackOp' = [op |-> "created", r |-> h, before |-> _vec, v |-> NoEntry]
  /\ UNCHANGED <<hType, readNull, writeNull, stackFatal, heldRefs, staleRefs>>
  /\ UNCHANGED <<poolVars, regVars, extVars>>

\* A Local handle goes out of scope.
Local_destroy(h) ==
  /\ ~stackFatal
  /\ Alive(h)
  /\ LET d == HandleDtor(h)
     IN  /\ handles' = [handles EXCEPT ![h] = [state |-> "dead", _data |-> 0]]
         /\ Logged("destroy", h, 0, 0, Null, d.hooks, d.gc)
  /\ _vec' = LocalHandleHooks_destroyed(_vec, h)
  /\ stackOp' = [op |-> "destroyed", r |-> h, before |-> _vec, v |-> NoEntry]
  /\ UNCHANGED <<hType, readNull, writeNull, stackFatal, heldRefs, staleRefs>>
  /\ UNCHANGED <<poolVars, regVars, extVars>>

\* Local handles on a thread whose shadow stack is also pushed to and
\* cleared directly.
NextLocal ==
  \/ \E kind \in {"default", "value", "storage"}, h \in HandleIds, v \in Vals :
       Local_construct(kind, h, v)
  \/ \E h \in HandleIds : Local_destroy(h)
  \/ \E v \in StackEntry : LocalStack_push(v)
  \/ LocalStack_clear

MockGCHooks_setReadNull(b) ==
  /\ readNull' = b
  /\ readNull # b
  /\ UNCHANGED <<handles, hType, writeNull, hookLog, gcLog, createdCount,
                 destroyedCount, hOp>>
  /\ HandleFrame

MockGCHooks_setWriteNull(b) ==
  /\ writeNull' = b
  /\ writeNull # b
  /\ UNCHANGED <<handles, hType, readNull, hookLog, gcLog, createdCount,
                 destroyedCount, hOp>>
  /\ HandleFrame

\* The discipline is the handle type's template argument: one per run.
InitHandle ==
  /\ hType \in HandleType
  /\ handles = [h \in HandleIds |-> [state |-> "unborn", _data |-> 0]]
  /\ readNull = FALSE
  /\ writeNull = FALSE
  /\ hookLog = <<>>
  /\ gcLog = <<>>
  /\ createdCount = [h \in HandleIds |-> 0]
  /\ destroyedCount = [h \in HandleIds |-> 0]
  /\ hOp = [op |-> "none", h |-> 0, src |-> 0, val |-> 0, result |-> 0]

NextHandle ==
  \/ \E kind \in {"default", "value", "storage"}, h \in HandleIds, v \in Vals :
       Handle_construct(kind, h, v)
  \/ \E kind \in {"copy", "move"}, h \in HandleIds, other \in HandleIds :
       Handle_constructFrom(kind, h, other)
  \/ \E h \in HandleIds : Handle_destroy(h)
  \/ \E kind \in {"assign", "moveAssign"}, h \in HandleIds, other \in HandleIds :
       Handle_assignFrom(kind, h, other)
  \/ \E kind \in {"assignValue", "assignStorage"}, h \in HandleIds, v \in Vals :
       Handle_assignValue(kind, h, v)
  \/ \E via \in {"get", "->", "*"}, h \in HandleIds : Handle_get(via, h)
  \/ \E h \in HandleIds : Handle_bool(h)
  \/ \E b \in BOOLEAN : MockGCHooks_setReadNull(b)
  \/ \E b \in BOOLEAN : MockGCHooks_setWriteNull(b)

(***************************************************************************)
(* StorageDescriptor used directly  (storage_descriptor.h; the program     *)
(* allocates and calls init itself, as makeSD of the tests does)           *)
(***************************************************************************)

\* The address of the block the program allocates for its own descriptor;
\* the registry's blocks have the addresses FreshPtr gives, all above boxed.
sdAddr == -2

\* No block allocated yet.
NoSD ==
  [bytes |-> 0, inited |-> FALSE, _sizeWithEmptyArray |-> 0,
   _hasArray |-> FALSE, _array |-> NoSlot, _numValues |-> 0, _values |-> <<>>]

\* The static sentinel: boxed(0, false, Slot(NULL, REFERENCE, 0), 0, 0).
BoxedSD ==
  InitSD(RawBlock(objectSize(0)), 0, FALSE,
         SlotCtor(<<>>, Null, REFERENCE, 0, FALSE).slot, <<>>)

\* The Slots the program hands to init: Slot(NULL, type, offset), boxed.
ProgramSlots ==
  {SlotCtor(<<>>, Null, t, o, FALSE).slot : t \in {REFERENCE, WEAK},
                                            o \in Offsets}

\* The slot ranges [valuesBegin, valuesEnd) the program passes.
SlotLists == UNION {[1 .. n -> ProgramSlots] : n \in 0 .. MaxSlots}

\* The sizeWithEmptyArray arguments: 0 and sizeof of some described type.
ObjectSizes == {0, 16}

\* The registered types this program looks up besides.
DescriptorTypes == {"Members1"}

\* Every descriptor memory the program can name, by address.
AllDescriptors == (sdAddr :> obj) @@ (boxed :> BoxedSD) @@ heap

\* The addresses of the descriptors whose init has returned.
Initialised ==
  {p \in DOMAIN AllDescriptors :
     /\ AllDescriptors[p].inited
     /\ p \in DOMAIN heap => regStack = <<>>}

DescriptorFrame ==
  UNCHANGED <<poolVars, stackVars, regVars, handleVars, newVars, layoutVars,
              lexVars>>

\* The program is sequential: it acts between lookups, not during one.
\* makeSD: new char[objectSize(valuesEnd - valuesBegin)], then init, which
\* runs the private constructor in place.  The constructor writes all the
\* fields and only then evaluates its ARW_ASSERT, which is ARW_CHECK in a
\* DEBUG build and ((void) 0) otherwise.  A run follows one such block.
StorageDescriptor_init(sizeWithEmptyArray, hasArray, array, slots) ==
  /\ ~sdFatal
  /\ regStack = <<>>
  /\ obj = NoSD
  /\ LET block == RawBlock(objectSize(Len(slots)))
     IN  obj' = InitSD(block, sizeWithEmptyArray, hasArray, array, slots)
  /\ sdFatal' = (DEBUG /\ ~InitAssertHolds(sizeWithEmptyArray, hasArray, slots))
  /\ sdOp' = [op |-> "init", p |-> sdAddr,
              arg |-> [sizeWithEmptyArray |-> sizeWithEmptyArray,
                       hasArray |-> hasArray, array |-> array,
                       slots |-> slots],
              r |-> sdAddr]
  /\ UNCHANGED DEBUG
  /\ DescriptorFrame

\* hasArray() const { return _hasArray; }
StorageDescriptor_hasArray(p) ==
  /\ ~sdFatal
  /\ regStack = <<>>
  /\ p \in Initialised
  /\ sdOp' = [op |-> "hasArray", p |-> p, arg |-> Null,
              r |-> AllDescriptors[p]._hasArray]
  /\ UNCHANGED <<DEBUG, obj, sdFatal>>
  /\ DescriptorFrame

\* isBoxed() const { return this == &boxed; }
StorageDescriptor_isBoxed(p) ==
  /\ ~sdFatal
  /\ regStack = <<>>
  /\ p \in Initialised
  /\ sdOp' = [op |-> "isBoxed", p |-> p, arg |-> Null, r |-> IsBoxed(p)]
  /\ UNCHANGED <<DEBUG, obj, sdFatal>>
  /\ DescriptorFrame

\* An array() that clears the slot it returns.
SDArrayClears(d) == [r |-> d._array, self |-> [d EXCEPT !._array = NoSlot]]

\* Slot &array() { return *_array; }: a non-const member function; r is
\* the Slot referred to and self the descriptor when it returns.
SDArray(d) == [r |-> d._array, self |-> d]

\* array() on a descriptor the program can reach as non-const: its own
\* block, or one of the registry (boxed is a private const object).
StorageDescriptor_array(p) ==
  /\ ~sdFatal
  /\ regStack = <<>>
  /\ p \in Initialised \ {boxed}
  /\ LET c == SDArray(AllDescriptors[p])
     IN  /\ sdOp' = [op |-> "array", p |-> p, arg |-> Null, r |-> c.r]
         /\ IF p = sdAddr
              THEN obj' = c.self /\ UNCHANGED heap
              ELSE heap' = [heap EXCEPT ![p] = c.self] /\ UNCHANGED obj
  /\ UNCHANGED <<DEBUG, sdFatal>>
  /\ UNCHANGED <<cache, regStack, regFatal, regPhase, regResult, handedOut,
                 handedRaw, uninitRead, allocCount, initCount, retCount,
                 returned, lastCall, lookups, lastSlot>>
  /\ UNCHANGED <<poolVars, stackVars, handleVars, newVars, layoutVars,
                 lexVars>>

\* constexpr static size_t objectSize(size_t numValues)
StorageDescriptor_objectSize(numValues) ==
  /\ ~sdFatal
  /\ regStack = <<>>
  /\ sdOp' = [op |-> "objectSize", p |-> Null, arg |-> numValues,
              r |-> objectSize(numValues)]
  /\ UNCHANGED <<DEBUG, obj, sdFatal>>
  /\ DescriptorFrame

\* Slot(p, type_, offset_) built by the program for a descriptor whose
\* init has returned; a failed ARW_CHECK ends the process.
StorageDescriptor_slotFor(p, type_, offset_) ==
  /\ ~sdFatal
  /\ regStack = <<>>
  /\ p \in Initialised
  /\ LET c == SlotCtor(AllDescriptors, p, type_, offset_, FALSE)
     IN  /\ sdOp' = [op |-> "Slot", p |-> p,
                     arg |-> [type |-> type_, offset |-> offset_],
                     r |-> c.slot]
         /\ sdFatal' = c.fatal
  /\ UNCHANGED <<DEBUG, obj>>
  /\ DescriptorFrame

InitDescriptor ==
  /\ obj = NoSD
  /\ sdFatal = FALSE
  /\ sdOp = [op |-> "none", p |-> Null, arg |-> Null, r |-> Null]

NextDescriptor ==
  \/ \E sizeWithEmptyArray \in ObjectSizes, hasArray \in BOOLEAN,
        array \in ProgramSlots, slots \in SlotLists :
       StorageDescriptor_init(sizeWithEmptyArray, hasArray, array, slots)
  \/ \E p \in Initialised : StorageDescriptor_hasArray(p)
  \/ \E p \in Initialised : StorageDescriptor_isBoxed(p)
  \/ \E p \in Initialised : StorageDescriptor_array(p)
  \/ \E numValues \in 0 .. MaxSlots + 1 : StorageDescriptor_objectSize(numValues)
  \/ \E p \in Initialised, type_ \in HandleType, offset_ \in Offsets :
       StorageDescriptor_slotFor(p, type_, offset_)
  \/ \E t \in DescriptorTypes : ~sdFatal /\ Registry_lookup(t)
  \/ \E item \in {"arr", "member"}, garbage \in BOOLEAN :
       Registry_evalArg(item, garbage)
  \/ \E garbage \in BOOLEAN : Registry_return(garbage)

(***************************************************************************)
(* Newable  (storage/newable.h)                                            *)
(***************************************************************************)

\* The addresses the collector's allocate hook returns (it decides), and
\* the ones a program may hand to delete (any, as in TEST(Newable, Delete)).
GCPtrs == {10, 11}
AnyPtrs == GCPtrs \cup {12}

\* sizeof(ChildClass) of the classes that derive from Newable.
ChildSizes == {1, 8}

\* An operator new that takes its memory elsewhere and calls no hook.
OperatorNewBypassesHook(sizeofChild, sz, hookRet) ==
  [calls |-> <<>>, r |-> hookRet]

\* Newable::operator new(sz): return GCHooks::allocate(sizeof(ChildClass)
\* * sz).  calls are the collector hooks called, hookRet what allocate
\* returns, r the result.
OperatorNew(sizeofChild, sz, hookRet) ==
  [calls |-> <<[hook |-> "allocate", size |-> sizeofChild * sz,
                ret |-> hookRet]>>,
   r |-> hookRet]

\* Newable::operator delete(ptr, sz): an empty body.
OperatorDelete(ptr, sz) == [calls |-> <<>>]

NewableFrame ==
  UNCHANGED <<poolVars, stackVars, regVars, handleVars, sdVars, layoutVars,
              lexVars>>

\* new ChildClass: the compiler calls operator new(sizeof(ChildClass)) and
\* constructs the object at the pointer it returns.
Newable_new(sizeofChild, hookRet) ==
  /\ Len(gcCalls) < MaxAllocs
  /\ LET c == OperatorNew(sizeofChild, sizeofChild, hookRet)
     IN  /\ gcCalls' = gcCalls \o c.calls
         /\ newOp' = [op |-> "new", ptr |-> c.r, hookRet |-> hookRet,
                      sz |-> sizeofChild, before |-> gcCalls]
  /\ NewableFrame

\* delete obj: the (trivial) destructor, then operator delete(obj, sizeof).
Newable_delete(ptr, sizeofChild) ==
  /\ LET c == OperatorDelete(ptr, sizeofChild)
     IN  /\ gcCalls' = gcCalls \o c.calls
         /\ newOp' = [op |-> "delete", ptr |-> ptr, hookRet |-> Null,
                      sz |-> sizeofChild, before |-> gcCalls]
  /\ NewableFrame

InitNewable ==
  /\ gcCalls = <<>>
  /\ newOp = [op |-> "none", ptr |-> Null, hookRet |-> Null, sz |-> 0,
              before |-> <<>>]

NextNewable ==
  \/ \E sizeofChild \in ChildSizes, hookRet \in GCPtrs :
       Newable_new(sizeofChild, hookRet)
  \/ \E ptr \in AnyPtrs, sizeofChild \in ChildSizes :
       Newable_delete(ptr, sizeofChild)

(***************************************************************************)
(* The storage a Handle occupies  (handle.h: the members of class Handle)  *)
(***************************************************************************)

\* Object types, by sizeof and alignof: the alignment is a power of two and
\* divides the size.
AlignOfs == {1, 2, 4, 8}
CTypes ==
  {[size |-> p[1], align |-> p[2]] :
     p \in {q \in (1 .. MaxSizeofT) \X AlignOfs : q[1] % q[2] = 0}}

\* T* on an LP64 build.
PointerType == [size |-> 8, align |-> 8]

\* The hook sets of the library and the one of the tests.
HookSets == {"MemberHandleHooks", "LocalHandleHooks", "TestHandleHooks"}

\* internal::HandleTypes<T, Type>::storage_type
storage_type(T, Type) == IF Type = VALUE THEN T ELSE PointerType

\* A Handle that also stores a pointer to its hook set.
HandleMembersWithHooksPointer(T, Type, Hooks) ==
  <<storage_type(T, Type), PointerType>>

\* The non-static data members of Handle<T, Type, Hooks>: storage_type
\* _data.  The class has no base and no virtual function, and Hooks is
\* used through static calls only.
HandleMembers(T, Type, Hooks) == <<storage_type(T, Type)>>

AlignUp(n, a) == ((n + a - 1) \div a) * a

\* The offset past member i when the members are laid out in order, each
\* at the next multiple of its alignment.
RECURSIVE LayoutEnd(_, _)
LayoutEnd(members, i) ==
  IF i = 0 THEN 0
  ELSE AlignUp(LayoutEnd(members, i - 1), members[i].align) + members[i].size

MaxAlign(members) ==
  CHOOSE a \in {members[i].align : i \in 1 .. Len(members)} :
    \A i \in 1 .. Len(members) : members[i].align <= a

\* sizeof of a class with these members.
SizeofClass(members) ==
  AlignUp(LayoutEnd(members, Len(members)), MaxAlign(members))

\* sizeof(Handle<T, Type, Hooks>), as TEST(Handle, Size) takes it.
Handle_sizeof(T, Type, Hooks) ==
  /\ sizeofOp' = [op |-> "sizeof", T |-> T, Type |-> Type, Hooks |-> Hooks,
                  storage |-> storage_type(T, Type),
                  r |-> SizeofClass(HandleMembers(T, Type, Hooks))]
  /\ UNCHANGED <<poolVars, stackVars, regVars, handleVars, sdVars, newVars,
                 lexVars>>

InitLayout ==
  sizeofOp = [op |-> "none", T |-> PointerType, Type |-> VALUE,
              Hooks |-> "none", storage |-> PointerType, r |-> 0]

NextLayout ==
  \E T \in CTypes, Type \in HandleType, Hooks \in HookSets :
    Handle_sizeof(T, Type, Hooks)

(***************************************************************************)
(* Lexer  (lexer.h, lexer.cc): whitespace, comments, symbols, string,      *)
(* regex and character literals, and the end marker                        *)
(***************************************************************************)

\* The input characters, by name: \0, \n, \r, ", ', /, \, # and a letter.
Chars == {"NUL", "LF", "CR", "DQUOTE", "QUOTE", "SLASH", "BACKSLASH", "HASH",
          "a"}

\* The characters of the inputs with punctuation (a symbol, a number, the
\* colon, the quote, the dash, the equals sign, the semicolon, >), and of
\* the inputs that are numbers with a type and a precision.
TokenChars == {"NUL", ":", ";", "-", "=", ">", "QUOTE", "a", "1"}
NumberChars == {"NUL", "0", "1", "i", "f", ";"}

\* isLetter, isDigit, isSymbolChar and isReservedChar, on these characters.
isLetter(chr) == chr \in {"a", "i", "f"}
isDigit(chr) == chr \in {"0", "1"}
DigitValue(chr) == IF chr = "1" THEN 1 ELSE 0
isSymbolChar(chr) ==
  chr \in {"-", "SLASH"} \/ isLetter(chr) \/ isDigit(chr)
isReservedChar(chr) == chr = "BACKSLASH"

\* The states GOT_NUMBER_PRECISION_I_0 .. _F_9, by the letter of the number
\* type and the first precision digit.
PrecisionStates ==
  [I |-> [d \in 0 .. 9 |->
           <<"GOT_NUMBER_PRECISION_I_0", "GOT_NUMBER_PRECISION_I_1",
             "GOT_NUMBER_PRECISION_I_2", "GOT_NUMBER_PRECISION_I_3",
             "GOT_NUMBER_PRECISION_I_4", "GOT_NUMBER_PRECISION_I_5",
             "GOT_NUMBER_PRECISION_I_6", "GOT_NUMBER_PRECISION_I_7",
             "GOT_NUMBER_PRECISION_I_8", "GOT_NUMBER_PRECISION_I_9">>[d + 1]],
   U |-> [d \in 0 .. 9 |->
           <<"GOT_NUMBER_PRECISION_U_0", "GOT_NUMBER_PRECISION_U_1",
             "GOT_NUMBER_PRECISION_U_2", "GOT_NUMBER_PRECISION_U_3",
             "GOT_NUMBER_PRECISION_U_4", "GOT_NUMBER_PRECISION_U_5",
             "GOT_NUMBER_PRECISION_U_6", "GOT_NUMBER_PRECISION_U_7",
             "GOT_NUMBER_PRECISION_U_8", "GOT_NUMBER_PRECISION_U_9">>[d + 1]],
   F |-> [d \in 0 .. 9 |->
           <<"GOT_NUMBER_PRECISION_F_0", "GOT_NUMBER_PRECISION_F_1",
             "GOT_NUMBER_PRECISION_F_2", "GOT_NUMBER_PRECISION_F_3",
             "GOT_NUMBER_PRECISION_F_4", "GOT_NUMBER_PRECISION_F_5",
             "GOT_NUMBER_PRECISION_F_6", "GOT_NUMBER_PRECISION_F_7",
             "GOT_NUMBER_PRECISION_F_8", "GOT_NUMBER_PRECISION_F_9">>[d + 1]]]

AllPrecisionStates ==
  {PrecisionStates[t][d] : t \in {"I", "U", "F"}, d \in 0 .. 9}

\* Lexer::numberPrecisionDigit
numberPrecisionDigit(state) ==
  CHOOSE d \in 0 .. 9 :
    \E t \in {"I", "U", "F"} : PrecisionStates[t][d] = state

\* Lexer::isNumberPrecision
isNumberPrecision(state, precision) ==
  \E d \in 0 .. 9 :
    state = PrecisionStates[CASE precision = "i" -> "I"
                              [] precision = "u" -> "U"
                              [] precision = "f" -> "F"][d]

\* The NumberType of a GOT_NUMBER_TYPE_* or GOT_NUMBER_PRECISION_* state.
NumberTypeOf(state) ==
  CASE state \in {"GOT_NUMBER_TYPE_I"} -> "P_SIGNED"
    [] state \in {"GOT_NUMBER_TYPE_U"} -> "P_UNSIGNED"
    [] state \in {"GOT_NUMBER_TYPE_F"} -> "P_IMPRECISE"
    [] state \in AllPrecisionStates /\ isNumberPrecision(state, "i") -> "P_SIGNED"
    [] state \in AllPrecisionStates /\ isNumberPrecision(state, "u") -> "P_UNSIGNED"
    [] state \in AllPrecisionStates /\ isNumberPrecision(state, "f") -> "P_IMPRECISE"

\* Lexer::makePosition
makePosition(S, offset) ==
  [offset |-> S._offset + offset, line |-> S._line,
   column |-> S._column + offset]

\* ARW_ASSERT(_column >= -offset) in makePosition: _column is uint64_t, so
\* -offset is converted to uint64_t; for a positive offset it becomes a
\* value above every column a run reaches.
makePositionAssert(S, offset) == offset <= 0 /\ S._column >= -offset

\* _recv->callback(makePosition(offset) ...); in a DEBUG build a failed
\* assertion ends the process before the callback is made.
Recv(S, callback, offset, msg) ==
  IF S.fatal \/ (DEBUG /\ ~makePositionAssert(S, offset))
    THEN [S EXCEPT !.fatal = TRUE]
    ELSE [S EXCEPT !.out = Append(@, [callback |-> callback, rel |-> offset,
                                      msg |-> msg, arg |-> <<>>,
                                      pos |-> makePosition(S, offset)])]

\* _recv->numberBegin(makePosition(offset), negative, radix) and
\* _recv->numberEnd(makePosition(offset), type, precision).
RecvNumber(S, callback, offset, arg) ==
  IF S.fatal \/ (DEBUG /\ ~makePositionAssert(S, offset))
    THEN [S EXCEPT !.fatal = TRUE]
    ELSE [S EXCEPT !.out = Append(@, [callback |-> callback, rel |-> offset,
                                      msg |-> "", arg |-> arg,
                                      pos |-> makePosition(S, offset)])]

SetState(S, state) == [S EXCEPT !._state = state]

\* The ended case reporting every stray character.
LexEndedReportsEach(S) == Recv(S, "error", 0, "Got stray data after end")

\* lexChar, case State::ENDED and case State::ENDED_REPORTED_ERROR.
LexEnded(S) ==
  IF S._state = "ENDED"
    THEN Recv(SetState(S, "ENDED_REPORTED_ERROR"), "error", 0,
              "Got stray data after end")
    ELSE S

\* The newline error of a literal left out.
LiteralNewlineErrorSilent(S, msg) == S

\* _recv->error(makePosition(), "Got newline in ... literal")
LiteralNewlineError(S, msg) == Recv(S, "error", 0, msg)

\* Lexer::lexEndOfNumber
lexEndOfNumber(S, type, precision, chr) ==
  LET S1 == IF isSymbolChar(chr)
              THEN Recv(S, "error", 0,
                        "Number immediately followed by symbol character")
              ELSE S
  IN  [RecvNumber(S1, "numberEnd", 0, <<type, precision>>)
         EXCEPT !._state = "IN_WHITESPACE"]

RECURSIVE lexChar(_, _)
RECURSIVE handleNewline(_, _, _, _)

\* Lexer::handleNewline
handleNewline(S, chr, lastNewline, nextState) ==
  LET S1 == [S EXCEPT !._line = @ + 1, !._column = 0, !._state = nextState]
  IN  IF (lastNewline = "LF" /\ chr # "CR") \/ (lastNewline = "CR" /\ chr # "LF")
        THEN lexChar([S1 EXCEPT !._column = @ + 1], chr)
        ELSE S1

\* Lexer::lexChar, for the states that these characters reach.  A state is
\* its enumerator's name.
lexChar(S, chr) ==
  LET st == S._state
      lastNewline == IF st \in {"IN_WHITESPACE_GOT_N", "IN_COMMENT_GOT_N",
                                "IN_STRING_GOT_N", "IN_REGEX_GOT_N",
                                "IN_CHAR_GOT_N"} THEN "LF" ELSE "CR"
  IN
  CASE st \in {"ENDED", "ENDED_REPORTED_ERROR"} -> LexEnded(S)
    [] st = "IN_WHITESPACE" ->
         (CASE chr = "LF" -> SetState(S, "IN_WHITESPACE_GOT_N")
            [] chr = "CR" -> SetState(S, "IN_WHITESPACE_GOT_R")
            [] chr = "HASH" ->
                 Recv(SetState(S, "IN_COMMENT"), "commentBegin", 0, "")
            [] chr = "DQUOTE" ->
                 Recv(SetState(S, "IN_STRING"), "stringBegin", 0, "")
            [] chr = ";" -> Recv(S, "semicolon", 0, "")
            [] chr = ">" -> Recv(S, "greaterThan", 0, "")
            [] chr = "-" -> SetState(S, "GOT_DASH")
            [] chr = "=" -> SetState(S, "GOT_EQUALS")
            [] chr = ":" -> SetState(S, "GOT_COLON")
            [] chr = "QUOTE" -> SetState(S, "GOT_QUOTE")
            [] chr = "NUL" -> SetState(S, "ENDED")
            [] isSymbolChar(chr) /\ ~isDigit(chr) ->
                 SetState(Recv(S, "symbolBegin", 0, ""), "IN_SYMBOL")
            [] chr = "0" -> SetState(S, "GOT_ZERO")
            [] isDigit(chr) ->
                 SetState(RecvNumber(S, "numberBegin", 0, <<FALSE, "DECIMAL">>),
                          "IN_NUMBER")
            [] isReservedChar(chr) ->
                 Recv(S, "error", 0, "Encountered reserved character")
            [] OTHER -> Recv(S, "error", 0, "Encountered invalid character"))
    [] st \in {"IN_WHITESPACE_GOT_N", "IN_WHITESPACE_GOT_R"} ->
         handleNewline(S, chr, lastNewline, "IN_WHITESPACE")
    [] st = "IN_COMMENT" ->
         (CASE chr = "LF" -> SetState(S, "IN_COMMENT_GOT_N")
            [] chr = "CR" -> SetState(S, "IN_COMMENT_GOT_R")
            [] chr = "NUL" -> SetState(Recv(S, "commentEnd", 0, ""), "ENDED")
            [] OTHER -> S)
    [] st \in {"IN_COMMENT_GOT_N", "IN_COMMENT_GOT_R"} ->
         handleNewline(Recv(S, "commentEnd", -1, ""), chr, lastNewline,
                       "IN_WHITESPACE")
    [] st = "IN_SYMBOL" ->
         IF isSymbolChar(chr) THEN S
         ELSE lexChar(SetState(Recv(S, "symbolEnd", 0, ""), "IN_WHITESPACE"),
                      chr)
    [] st = "IN_STRING" ->
         (CASE chr = "LF" -> SetState(S, "IN_STRING_GOT_N")
            [] chr = "CR" -> SetState(S, "IN_STRING_GOT_R")
            [] chr = "BACKSLASH" -> SetState(S, "IN_STRING_GOT_ESCAPE")
            [] chr = "DQUOTE" ->
                 SetState(Recv(S, "stringEnd", 0, ""), "IN_WHITESPACE")
            [] chr = "NUL" ->
                 SetState(Recv(S, "error", 0, "Got end in string literal"),
                          "ENDED")
            [] OTHER -> S)
    [] st = "IN_STRING_GOT_ESCAPE" ->
         (CASE chr = "LF" -> SetState(S, "IN_STRING_GOT_N")
            [] chr = "CR" -> SetState(S, "IN_STRING_GOT_R")
            [] chr = "NUL" ->
                 SetState(Recv(S, "error", 0, "Got end in string literal"),
                          "ENDED")
            [] OTHER -> SetState(S, "IN_STRING"))
    [] st \in {"IN_STRING_GOT_N", "IN_STRING_GOT_R"} ->
         LET S1 == LiteralNewlineError(S, "Got newline in string literal")
         IN  IF chr = "NUL"
               THEN SetState(Recv(S1, "error", 0, "Got end in string literal"),
                             "ENDED")
               ELSE handleNewline(S1, chr, lastNewline, "IN_STRING")
    [] st = "IN_REGEX" ->
         (CASE chr = "LF" -> SetState(S, "IN_REGEX_GOT_N")
            [] chr = "CR" -> SetState(S, "IN_REGEX_GOT_R")
            [] chr = "BACKSLASH" -> SetState(S, "IN_REGEX_GOT_ESCAPE")
            [] chr = "SLASH" ->
                 SetState(Recv(S, "regexEnd", 0, ""), "IN_WHITESPACE")
            [] chr = "NUL" ->
                 SetState(Recv(S, "error", 0, "Got end in regex literal"),
                          "ENDED")
            [] OTHER -> S)
    [] st = "IN_REGEX_GOT_ESCAPE" ->
         (CASE chr = "LF" -> SetState(S, "IN_REGEX_GOT_N")
            [] chr = "CR" -> SetState(S, "IN_REGEX_GOT_R")
            [] chr = "NUL" ->
                 SetState(Recv(S, "error", 0, "Got end in regex literal"),
                          "ENDED")
            [] OTHER -> SetState(S, "IN_REGEX"))
    [] st \in {"IN_REGEX_GOT_N", "IN_REGEX_GOT_R"} ->
         LET S1 == LiteralNewlineError(S, "Got newline in regex literal")
         IN  IF chr = "NUL"
               THEN SetState(Recv(S1, "error", 0, "Got end in regex literal"),
                             "ENDED")
               ELSE handleNewline(S1, chr, lastNewline, "IN_REGEX")
    [] st = "IN_CHAR" ->
         (CASE chr = "LF" -> SetState(S, "IN_CHAR_GOT_N")
            [] chr = "CR" -> SetState(S, "IN_CHAR_GOT_R")
            [] chr = "BACKSLASH" -> SetState(S, "IN_CHAR_GOT_ESCAPE")
            [] OTHER -> SetState(Recv(S, "charEnd", 1, ""), "IN_WHITESPACE"))
    [] st = "IN_CHAR_GOT_ESCAPE" ->
         (CASE chr = "LF" -> SetState(S, "IN_CHAR_GOT_N")
            [] chr = "CR" -> SetState(S, "IN_CHAR_GOT_R")
            [] OTHER -> SetState(Recv(S, "charEnd", 1, ""), "IN_WHITESPACE"))
    [] st \in {"IN_CHAR_GOT_N", "IN_CHAR_GOT_R"} ->
         handleNewline(Recv(S, "error", 0, "Got newline in character literal"),
                       chr, lastNewline, "IN_CHAR")
    [] st \in {"IN_NUMBER", "IN_NUMBER_JUST_GOT_DOT", "IN_NUMBER_GOT_DOT"} ->
         LET S1 == IF st = "IN_NUMBER_JUST_GOT_DOT" /\ ~isDigit(chr)
                     THEN Recv(S, "error", 0, "Got non-digit after decimal dot")
                   ELSE IF st = "IN_NUMBER_GOT_DOT" /\ chr = "."
                     THEN Recv(S, "error", 0, "Got two decimal dots in number")
                   ELSE S
         IN  CASE isDigit(chr) ->
                    IF st = "IN_NUMBER_JUST_GOT_DOT"
                      THEN SetState(S1, "IN_NUMBER_GOT_DOT") ELSE S1
               [] chr = "." -> SetState(S1, "IN_NUMBER_JUST_GOT_DOT")
               [] chr = "i" -> SetState(S1, "GOT_NUMBER_TYPE_I")
               [] chr = "u" -> SetState(S1, "GOT_NUMBER_TYPE_U")
               [] chr = "f" -> SetState(S1, "GOT_NUMBER_TYPE_F")
               [] OTHER -> lexEndOfNumber(S1, "P_UNSPECIFIED", -1, chr)
    [] st = "GOT_QUOTE" ->
         (CASE chr = "SLASH" ->
                 SetState(Recv(S, "regexBegin", -1, ""), "IN_REGEX")
            [] chr = "QUOTE" ->
                 Recv(SetState(S, "IN_CHAR"), "charBegin", -1, "")
            [] OTHER ->
                 lexChar(SetState(Recv(S, "quote", -1, ""), "IN_WHITESPACE"),
                         chr))
    [] st = "GOT_DASH" ->
         (CASE chr = ">" -> Recv(S, "arrow", -1, "")
            [] chr = "0" -> SetState(S, "GOT_ZERO_NEGATIVE")
            [] isDigit(chr) /\ chr # "0" ->
                 RecvNumber(SetState(S, "IN_NUMBER"), "numberBegin", -1,
                            <<TRUE, "DECIMAL">>)
            [] OTHER ->
                 lexChar(Recv(SetState(S, "IN_SYMBOL"), "symbolBegin", -1, ""),
                         chr))
    [] st = "GOT_EQUALS" ->
         IF chr = ">" THEN Recv(S, "doubleArrow", -1, "")
         ELSE Recv(SetState(S, "IN_SYMBOL"), "symbolBegin", 0, "")
    [] st = "GOT_COLON" ->
         IF chr = ":"
           THEN SetState(Recv(S, "doubleColon", -1, ""), "IN_WHITESPACE")
           ELSE lexChar(SetState(Recv(S, "colon", -1, ""), "IN_WHITESPACE"),
                        chr)
    [] st \in {"GOT_ZERO", "GOT_ZERO_NEGATIVE"} ->
         LET negative == st = "GOT_ZERO_NEGATIVE"
             S1 == SetState(S, "IN_NUMBER")
             off == IF negative THEN -2 ELSE -1
         IN  CASE chr = "x" -> RecvNumber(S1, "numberBegin", off, <<negative, "HEX">>)
               [] chr = "b" -> RecvNumber(S1, "numberBegin", off, <<negative, "BINARY">>)
               [] chr = "o" -> RecvNumber(S1, "numberBegin", off, <<negative, "OCTAL">>)
               [] isDigit(chr) ->
                    lexChar(RecvNumber(S1, "numberBegin", off,
                                       <<negative, "OCTAL">>), chr)
               [] OTHER ->
                    lexChar(RecvNumber(S1, "numberBegin", off,
                                       <<negative, "DECIMAL">>), chr)
    [] st \in {"GOT_NUMBER_TYPE_I", "GOT_NUMBER_TYPE_U", "GOT_NUMBER_TYPE_F"} ->
         IF isDigit(chr)
           THEN LET S1 == IF chr = "0"
                            THEN Recv(S, "error", 0,
                                      "Number precision must not start with 0")
                            ELSE S
                    t == CASE st = "GOT_NUMBER_TYPE_I" -> "I"
                           [] st = "GOT_NUMBER_TYPE_U" -> "U"
                           [] st = "GOT_NUMBER_TYPE_F" -> "F"
                IN  SetState(S1, PrecisionStates[t][DigitValue(chr)])
           ELSE lexEndOfNumber(S, NumberTypeOf(st), -1, chr)
    [] st \in AllPrecisionStates ->
         IF isDigit(chr)
           THEN SetState(RecvNumber(S, "numberEnd", 1,
                                    <<NumberTypeOf(st),
                                      numberPrecisionDigit(st) * 10
                                        + DigitValue(chr)>>),
                         "GOT_NUMBER_PRECISION_2")
           ELSE lexEndOfNumber(S, NumberTypeOf(st), numberPrecisionDigit(st),
                               chr)
    [] st \in {"GOT_NUMBER_PRECISION_2", "GOT_NUMBER_PRECISION_3"} ->
         IF isDigit(chr)
           THEN IF st = "GOT_NUMBER_PRECISION_2"
                  THEN Recv(S, "error", 0,
                            "Number precision must be at most 2 digits")
                  ELSE S
           ELSE lexChar(SetState(IF isSymbolChar(chr)
                                   THEN Recv(S, "error", 0,
                                     "Number immediately followed by symbol character")
                                   ELSE S,
                                 "IN_WHITESPACE"), chr)

EndedStates == {"ENDED", "ENDED_REPORTED_ERROR"}

LexerFrame ==
  UNCHANGED <<poolVars, stackVars, regVars, handleVars, sdVars, newVars,
              layoutVars>>

\* One turn of the loop of Lexer::lex: ++_column; lexChar(*begin);
\* ++_offset.  A call lex(begin, end) is one turn for each character.
LexTurn(chr) ==
  /\ ~lexFatal
  /\ LET S0 == [_state |-> lexer._state, _offset |-> lexer._offset,
                _line |-> lexer._line, _column |-> lexer._column + 1,
                out |-> <<>>, fatal |-> FALSE]
         S1 == lexChar(S0, chr)
         at == Len(input) + 1
     IN  /\ lexer' = [_state |-> S1._state, _offset |-> S1._offset + 1,
                      _line |-> S1._line, _column |-> S1._column]
         /\ lexFatal' = S1.fatal
         /\ input' = Append(input, chr)
         /\ stateLog' = Append(stateLog, lexer._state)
         /\ lexLog' = lexLog \o [i \in 1 .. Len(S1.out) |->
                                   [at |-> at, callback |-> S1.out[i].callback,
                                    rel |-> S1.out[i].rel,
                                    msg |-> S1.out[i].msg,
                                    arg |-> S1.out[i].arg,
                                    pos |-> S1.out[i].pos]]
         /\ endedAt' = IF endedAt = 0 /\ S1._state \in EndedStates
                         THEN at ELSE endedAt
  /\ UNCHANGED DEBUG
  /\ LexerFrame

\* lex on an input of up to MaxInput characters.
Lexer_lex(chr) == Len(input) < MaxInput /\ LexTurn(chr)

\* lex on a number, an input of up to MaxNumberInput characters.
Lexer_lexNumber(chr) == Len(input) < MaxNumberInput /\ LexTurn(chr)

\* Lexer::Lexer: _offset = 0, _line = 1, _column = 0, IN_WHITESPACE.
InitLexer ==
  /\ lexer = [_state |-> "IN_WHITESPACE", _offset |-> 0, _line |-> 1,
              _column |-> 0]
  /\ lexFatal = FALSE
  /\ input = <<>>
  /\ lexLog = <<>>
  /\ stateLog = <<>>
  /\ endedAt = 0

NextLexer == \E chr \in Chars : Lexer_lex(chr)

NextLexerTokens == \E chr \in TokenChars : Lexer_lex(chr)

NextLexerNumbers == \E chr \in NumberChars : Lexer_lexNumber(chr)

(***************************************************************************)
(* Specifications                                                          *)
(***************************************************************************)
vars == <<poolVars, stackVars, regVars, handleVars, extVars>>

InitComponents ==
  InitPool /\ InitStack /\ InitRegistry /\ InitHandle /\ InitDescriptor
  /\ InitNewable /\ InitLayout /\ InitLexer

\* The pool, the stack, the registry and the handles use ARW_CHECK only,
\* which is the same in every build: their specifications fix the build.
Init == InitComponents /\ DEBUG = FALSE

\* Either build, for the components that use ARW_ASSERT.
InitAnyBuild == InitComponents /\ hType = VALUE /\ DEBUG \in BOOLEAN

\* The components do not share state: each is checked on its own, with
\* the others at rest (for the handles: no handle built, of any one type).
InitAtRest == Init /\ hType = VALUE

SpecPool == InitAtRest /\ [][NextPool]_vars

SpecPoolIter == InitAtRest /\ [][NextPoolIter]_vars

SpecStack == InitAtRest /\ [][NextStack]_vars

SpecRegistry == InitAtRest /\ [][NextRegistry]_vars

SpecSlots == InitAtRest /\ [][NextSlots]_vars

SpecHandle == Init /\ [][NextHandle]_vars

SpecLocal == Init /\ [][NextLocal]_vars

SpecDescriptor == InitAnyBuild /\ [][NextDescriptor]_vars

SpecNewable == InitAtRest /\ [][NextNewable]_vars

SpecLayout == InitAtRest /\ [][NextLayout]_vars

SpecLexer == InitAnyBuild /\ [][NextLexer]_vars

SpecLexerTokens == InitAnyBuild /\ [][NextLexerTokens]_vars

SpecLexerNumbers == InitAnyBuild /\ [][NextLexerNumbers]_vars

\* A lookup, once called, runs to its return: the program is sequential.
SpecRegistryFair == SpecRegistry /\ WF_vars(RegistryStep)

(***************************************************************************)
(* Claims                                                                  *)
(***************************************************************************)

\* C1: while no fatal assertion has been hit, an identity x is in the pool
\* exactly when more add(x, .) than remove(x) calls were made, its stored
\* refcount is that difference (hence >= 1), and the pool is empty exactly
\* when every identity is balanced.
C1_RefcountIsAddsMinusRemoves ==
  ~poolFatal =>
    /\ \A x \in Data :
         /\ (x \in DOMAIN _map) <=> (addCalls[x] > removeCalls[x])
         /\ x \in DOMAIN _map =>
              /\ _map[x].second = addCalls[x] - removeCalls[x]
              /\ _map[x].second >= 1
    /\ PoolEmpty <=> (\A x \in Data : addCalls[x] = removeCalls[x])

\* add(x, d); add(x, d); remove(x) has been run: x is present once more.
C1_Witness ==
  /\ ~poolFatal
  /\ \E x \in Data :
       /\ addCalls[x] = 2
       /\ removeCalls[x] = 1
       /\ x \in DOMAIN _map
       /\ _map[x].second = 1

\* C2: a popTo(r) that passes its check leaves exactly the first r entries
\* of the stack it was applied to, in order and unchanged (so popTo(top())
\* and a repeated popTo(r) change nothing).
C2_PopToKeepsPrefix ==
  (stackOp.op = "popTo" /\ ~stackFatal) =>
    /\ stackOp.r <= Len(stackOp.before)
    /\ Len(_vec) = stackOp.r
    /\ \A i \in 1 .. stackOp.r : _vec[i] = stackOp.before[i]
    /\ (stackOp.r = Len(stackOp.before) => _vec = stackOp.before)

\* push(a); r1 = top(); push(b); popTo(r1) has been run: only a is left.
C2_Witness ==
  /\ stackOp.op = "popTo"
  /\ ~stackFatal
  /\ stackOp.r = 1
  /\ Len(stackOp.before) = 2
  /\ _vec = <<stackOp.before[1]>>

\* C3: when an outermost lookup has returned, the descriptor it returned
\* and every descriptor whose pointer get handed out during that lookup,
\* also those handed out before their init had run, has been initialised.
C3_InitialisedAtOutermostReturn ==
  (regPhase = "returned" /\ regStack = <<>>) =>
    /\ regResult.ptr # Null
    /\ IsInitialised(heap, regResult.ptr)
    /\ \A p \in handedOut \cup handedRaw : IsInitialised(heap, p)

\* An outermost lookup has returned after a recursive caller was handed a
\* pointer to memory that was not initialised yet.
C3_Witness ==
  /\ regPhase = "returned"
  /\ regStack = <<>>
  /\ handedRaw # {}
  /\ regResult.ptr \in handedRaw

\* C4: per registered type memory is allocated at most once and init runs
\* at most once, and exactly once when the type's factory has returned; the
\* pointer is cached while the type's own arguments are built, no type has
\* two activations, and a call made while the type's initialisation is in
\* progress got the cached pointer without allocating.
C4_AllocatedAndInitialisedOnce ==
  /\ \A t \in Types :
       LET active == {i \in 1 .. Len(regStack) : regStack[i].klass = t}
       IN  /\ allocCount[t] <= 1
           /\ initCount[t] <= allocCount[t]
           /\ (cache[t] # Null) <=> (allocCount[t] = 1)
           /\ Cardinality(active) <= 1
           /\ active # {} => (cache[t] # Null /\ initCount[t] = 0
                              /\ ~heap[cache[t]].inited)
           /\ (cache[t] # Null /\ active = {}) => initCount[t] = 1
  /\ lastCall.inProgress => lastCall.cached

\* A factory was called while its own initialisation was in progress, and
\* the type ended with one allocation and one init.
C4_Witness ==
  /\ lastCall.inProgress
  /\ lastCall.cached
  /\ regStack = <<>>
  /\ allocCount[lastCall.klass] = 1
  /\ initCount[lastCall.klass] = 1

\* C5: during a lookup no field of a descriptor is read before its init
\* has completed, whatever the disciplines of the slots and whichever type
\* of a cycle is looked up first.
C5_NoReadBeforeInit == ~uninitRead

\* C6: a lookup of Circular, a type with a strong reference to itself,
\* terminates, and what it returns is a non-null, non-boxed descriptor
\* without array whose single slot refers to the descriptor itself.
C6_CircularDescriptor ==
  /\ [](regPhase = "returned" /\ regResult.klass = "Circular" =>
          /\ regResult.ptr # Null
          /\ regResult.ptr # boxed
          /\ heap[regResult.ptr].inited
          /\ ~heap[regResult.ptr]._hasArray
          /\ heap[regResult.ptr]._numValues = 1
          /\ heap[regResult.ptr]._values[1].storageDescriptor = regResult.ptr
          /\ heap[regResult.ptr]._values[1].type = REFERENCE)
  /\ (regStack # <<>> /\ regStack[1].klass = "Circular")
       ~> (regStack = <<>> /\ regPhase = "returned"
           /\ regResult.klass = "Circular")

\* The first lookup of Circular has returned.
C6_Witness ==
  /\ regPhase = "returned"
  /\ regResult.klass = "Circular"
  /\ retCount["Circular"] = 1
  /\ lastCall.inProgress

\* C7: all the pointers get ever returned for one type are one and the
\* same, the type's cached descriptor, and no two types share one.
C7_OneDescriptorPerType ==
  \A t \in Types :
    /\ Cardinality(returned[t]) <= 1
    /\ returned[t] \subseteq {cache[t]}
    /\ allocCount[t] <= 1
    /\ \A u \in Types \ {t} : returned[t] \cap returned[u] = {}

\* Circular was looked up twice and another type in the same run.
C7_Witness ==
  /\ retCount["Circular"] >= 2
  /\ \E u \in Types \ {"Circular"} : retCount[u] >= 1
  /\ Cardinality(returned["Circular"]) = 1

CtorOps == {"default", "value", "storage", "copy", "move"}
AssignOps == {"assign", "moveAssign", "assignValue", "assignStorage"}
ReadOps == {"get", "->", "*"}

\* C8: every handle that has been constructed, by any of the five
\* constructors, has had created called exactly once; destroyed has been
\* called exactly once on a destroyed handle (after created) and never on
\* another; an assignment calls neither on either operand.
C8_CreatedAndDestroyedOnce ==
  /\ \A h \in HandleIds :
       /\ createdCount[h] = IF handles[h].state = "unborn" THEN 0 ELSE 1
       /\ destroyedCount[h] = IF handles[h].state = "dead" THEN 1 ELSE 0
       /\ destroyedCount[h] <= createdCount[h]
  /\ hOp.op \in CtorOps =>
       /\ Calls(hookLog, "created", hOp.h) = 1
       /\ \A h \in HandleIds : Calls(hookLog, "destroyed", h) = 0
       /\ \A h \in HandleIds \ {hOp.h} : Calls(hookLog, "created", h) = 0
  /\ hOp.op = "destroy" =>
       /\ Calls(hookLog, "destroyed", hOp.h) = 1
       /\ \A h \in HandleIds : Calls(hookLog, "created", h) = 0
  /\ hOp.op \in AssignOps =>
       \A h \in HandleIds : /\ Calls(hookLog, "created", h) = 0
                            /\ Calls(hookLog, "destroyed", h) = 0

\* A handle has been destroyed, after one created and with one destroyed
\* call, while another handle, created once, is still alive.
C8_Witness ==
  /\ hOp.op = "destroy"
  /\ handles[hOp.h].state = "dead"
  /\ createdCount[hOp.h] = 1
  /\ destroyedCount[hOp.h] = 1
  /\ \E h \in HandleIds \ {hOp.h} : Alive(h) /\ createdCount[h] = 1

\* C9: on a REFERENCE or WEAK handle a get or dereference makes exactly
\* one Hooks call, read on that handle; an assignment makes exactly one,
\* write on the assigned-to handle (none on the source); a constructor
\* calls neither read nor write; on VALUE handles no operation does.
C9_ReadAndWriteOncePerAccess ==
  /\ (hType # VALUE /\ hOp.op \in ReadOps) =>
       /\ Len(hookLog) = 1
       /\ hookLog[1].fn = "read"
       /\ hookLog[1].ptr = hOp.h
  /\ (hType # VALUE /\ hOp.op \in AssignOps) =>
       /\ Len(hookLog) = 1
       /\ hookLog[1].fn = "write"
       /\ hookLog[1].ptr = hOp.h
  /\ hOp.op \in CtorOps =>
       \A h \in HandleIds : /\ Calls(hookLog, "read", h) = 0
                            /\ Calls(hookLog, "write", h) = 0
  /\ hType = VALUE =>
       /\ \A h \in HandleIds : /\ Calls(hookLog, "read", h) = 0
                               /\ Calls(hookLog, "write", h) = 0
       /\ gcLog = <<>>

\* A REFERENCE handle has been move-assigned from another handle.
C9_Witness ==
  /\ hType = REFERENCE
  /\ hOp.op = "moveAssign"
  /\ hOp.src # hOp.h
  /\ Calls(hookLog, "write", hOp.h) = 1
  /\ Calls(hookLog, "write", hOp.src) = 0

\* C10: on a REFERENCE or WEAK handle, get and the dereferences yield
\* exactly what Hooks::read returned, which is what the one GCHooks::read
\* call on the handle's storage returned; after an assignment _data is
\* exactly what Hooks::write left there, which is what the one
\* GCHooks::write call, given the storage and the assigned value, stored.
C10_HooksDecideThePointer ==
  hType # VALUE =>
    /\ hOp.op \in ReadOps =>
         /\ Len(hookLog) = 1
         /\ hOp.result = hookLog[1].ret
         /\ Len(gcLog) = 1
         /\ gcLog[1].fn = "read"
         /\ gcLog[1].ptr = hOp.h
         /\ hOp.result = gcLog[1].ret
    /\ hOp.op \in AssignOps =>
         /\ Len(hookLog) = 1
         /\ handles[hOp.h]._data = hookLog[1].stored
         /\ Len(gcLog) = 1
         /\ gcLog[1].fn = "write"
         /\ gcLog[1].ptr = hOp.h
         /\ gcLog[1].val = hOp.val
         /\ handles[hOp.h]._data = gcLog[1].stored

\* A WEAK handle was assigned a non-null pointer while the collector's
\* write stores nullptr: the handle holds nullptr.
C10_Witness ==
  /\ hType = WEAK
  /\ hOp.op = "assignValue"
  /\ writeNull
  /\ hOp.val # Null
  /\ handles[hOp.h]._data = Null

C12_AddConflictIsFatal ==
  poolOp.op = "add" =>
    LET x == poolOp.data
        conflict == x \in DOMAIN poolOp.before
                    /\ poolOp.before[x].first # poolOp.desc
    IN  /\ poolFatal <=> conflict
        /\ conflict => /\ _map = poolOp.before
                       /\ _map[x].first = poolOp.before[x].first
                       /\ _map[x].second = poolOp.before[x].second

\* add(x, d1); add(x, d1); add(x, d2) has been run: the third call failed
\* and x still has d1 and refcount 2.
C12_Witness ==
  /\ poolOp.op = "add"
  /\ poolFatal
  /\ poolOp.data \in DOMAIN _map
  /\ _map[poolOp.data].first # poolOp.desc
  /\ _map[poolOp.data].second = 2

\* C13: remove(x) hits the fatal assertion exactly when x is not present,
\* be it that x was never added or that every add of x had been matched by
\* a remove; the failed call leaves the pool as it was.
C13_RemoveAbsentIsFatal ==
  poolOp.op = "remove" =>
    LET x == poolOp.data
    IN  /\ poolFatal <=> x \notin DOMAIN poolOp.before
        /\ poolFatal => /\ _map = poolOp.before
                        /\ addCalls[x] = removeCalls[x]
        /\ ~poolFatal => removeCalls[x] <= addCalls[x]

\* add(x, d); remove(x); remove(x) has been run: the second remove failed.
C13_Witness ==
  /\ poolOp.op = "remove"
  /\ poolFatal
  /\ addCalls[poolOp.data] = 1
  /\ removeCalls[poolOp.data] = 1
  /\ _map = poolOp.before

\* C14 as stated: in a run without fatal assertion every add(x, d) that
\* returned supplied the descriptor of the first add(x, .), and x's entry
\* has that descriptor, also after x was removed and added again.
C14_SameDescriptorOverWholeRun ==
  ~poolFatal =>
    /\ \A x \in DOMAIN _map : _map[x].first = firstDesc[x]
    /\ poolOp.op = "add" => poolOp.desc = firstDesc[poolOp.data]

\* C14 amended: in a run without fatal assertion an identity keeps its
\* descriptor for as long as its entry is present: an add(x, d) that
\* returned while x was present supplied the descriptor of x's entry, no
\* call changes the descriptor of an entry that stays, and an add of an
\* absent x records the descriptor it is given, whatever x had before.
C14_SameDescriptorWhilePresent ==
  (~poolFatal /\ poolOp.op # "none") =>
    /\ \A y \in DOMAIN poolOp.before \cap DOMAIN _map :
         _map[y].first = poolOp.before[y].first
    /\ (poolOp.op = "add" /\ poolOp.data \in DOMAIN poolOp.before) =>
         poolOp.desc = poolOp.before[poolOp.data].first
    /\ (poolOp.op = "add" /\ poolOp.data \notin DOMAIN poolOp.before) =>
         _map[poolOp.data] = [first |-> poolOp.desc, second |-> 1]

\* add(x, d1); remove(x); add(x, d2); add(x, d2) has been run without a
\* fatal assertion: x is present with d2, not with the d1 of its first add.
C14_Witness ==
  /\ ~poolFatal
  /\ poolOp.op = "add"
  /\ poolOp.data \in DOMAIN poolOp.before
  /\ firstDesc[poolOp.data] # NoDesc
  /\ _map[poolOp.data].first # firstDesc[poolOp.data]
  /\ _map[poolOp.data].second = 2

\* The (descriptor, identity) pairs of the entries of the pool.
PoolEntries == {<<_map[x].first, x>> : x \in DOMAIN _map}

\* C15: a loop from begin() to end() yields the entries of the pool, each
\* identity present once with the descriptor it was added with, however
\* often it was added, and no identity whose refcount dropped to zero;
\* while the loop runs it has yielded distinct entries, in key order.
C15_IterationYieldsEachEntryOnce ==
  LET y == iter.yielded
  IN  /\ \A i \in 1 .. Len(y) : y[i] \in PoolEntries
      /\ \A i, j \in 1 .. Len(y) : i < j => y[i][2] < y[j][2]
      /\ iter.phase = "done" =>
           /\ {y[i] : i \in 1 .. Len(y)} = PoolEntries
           /\ Len(y) = Cardinality(DOMAIN _map)

\* A loop has ended over a pool with an identity added twice and another
\* identity added and removed again: one pair was yielded.
C15_Witness ==
  /\ iter.phase = "done"
  /\ Len(iter.yielded) = 1
  /\ \E x \in DOMAIN _map : _map[x].second = 2
  /\ \E x \in Data \ DOMAIN _map : addCalls[x] >= 1

\* C16: popTo(r) hits the fatal check exactly when r is greater than the
\* current size; no popTo leaves more entries than it found, and a
\* rejected popTo leaves the stack as it was.
C16_PopToBeyondSizeIsFatal ==
  stackOp.op = "popTo" =>
    /\ stackFatal <=> stackOp.r > Len(stackOp.before)
    /\ Len(_vec) <= Len(stackOp.before)
    /\ stackFatal => _vec = stackOp.before

\* A ref taken at height 2 was used after the stack had shrunk to one
\* entry: the popTo failed and the entry is still there.
C16_Witness ==
  /\ stackOp.op = "popTo"
  /\ stackFatal
  /\ stackOp.r = 2
  /\ Len(stackOp.before) = 1
  /\ _vec = stackOp.before

\* C17: push appends exactly the pushed entry at the end and leaves every
\* earlier entry at its position; top() is the number of entries and
\* changes nothing, so a second top() returns the same ref and after a
\* push top() is one larger; iteration yields the entries in push order,
\* the last pushed last.
C17_PushAppendsAndTopIsSize ==
  /\ StackTop(_vec) = Len(_vec)
  /\ stackOp.op = "push" =>
       /\ Len(_vec) = Len(stackOp.before) + 1
       /\ \A i \in 1 .. Len(stackOp.before) : _vec[i] = stackOp.before[i]
       /\ _vec[Len(_vec)] = stackOp.v
       /\ StackTop(_vec) = StackTop(stackOp.before) + 1
       /\ StackIterate(_vec) = Append(StackIterate(stackOp.before), stackOp.v)
  /\ stackOp.op = "top" =>
       /\ _vec = stackOp.before
       /\ stackOp.r = Len(_vec)
       /\ StackTop(_vec) = stackOp.r
       /\ stackOp.r \in heldRefs

\* Two different entries were pushed one after the other: iteration
\* yields them in that order.
C17_Witness ==
  /\ stackOp.op = "push"
  /\ Len(_vec) = 2
  /\ _vec[1] # _vec[2]
  /\ StackIterate(_vec) = <<stackOp.before[1], stackOp.v>>

\* C18: building a Local handle leaves the shadow stack with exactly one
\* entry more, the entries below unchanged, and destroying a Local handle
\* leaves the stack as it was.
C18_LocalPushesOneEntry ==
  /\ stackOp.op = "created" =>
       /\ Len(_vec) = Len(stackOp.before) + 1
       /\ SubSeq(_vec, 1, Len(stackOp.before)) = stackOp.before
  /\ stackOp.op = "destroyed" => _vec = stackOp.before

\* The Slots whose constructor has returned: those the factories hold for
\* the init call they are preparing, those init has stored in a
\* descriptor, and the one the program constructed itself.
ConstructedSlots ==
  UNION {{regStack[i].built[j] : j \in 1 .. Len(regStack[i].built)}
           : i \in 1 .. Len(regStack)}
  \cup {regStack[i].arr : i \in 1 .. Len(regStack)}
  \cup UNION {{heap[p]._array} \cup
               {heap[p]._values[j] : j \in 1 .. Len(heap[p]._values)}
                : p \in {q \in DOMAIN heap : heap[q].inited}}
  \cup (IF lastSlot.built /\ ~lastSlot.fatal THEN {lastSlot.slot} ELSE {})

\* C19: no Slot whose constructor returned has the boxed sentinel with
\* discipline VALUE, nor discipline VALUE with a descriptor that has an
\* array part; and a construction asking for either is a fatal assertion.
C19_SlotInvariants ==
  /\ \A s \in ConstructedSlots \ {NoSlot} :
       /\ IsBoxed(s.storageDescriptor) => s.type # VALUE
       /\ (s.type = VALUE /\ s.storageDescriptor \in DOMAIN heap
             /\ heap[s.storageDescriptor].inited) =>
            ~heap[s.storageDescriptor]._hasArray
  /\ lastSlot.built =>
       LET sd == lastSlot.slot.storageDescriptor
           bad == lastSlot.slot.type = VALUE
                  /\ (IsBoxed(sd) \/ (sd \in DOMAIN heap /\ heap[sd]._hasArray))
       IN  bad => lastSlot.fatal

\* C20: a Slot constructed with a null descriptor refers to the boxed
\* sentinel, the one Slot::empty refers to, and one constructed with a
\* descriptor refers to that descriptor; no Slot holds a null descriptor;
\* isBoxed() holds of the sentinel and of no descriptor the registry
\* allocated and init built.
C20_NullMeansBoxedSentinel ==
  /\ lastSlot.built =>
       /\ lastSlot.arg = Null =>
            /\ lastSlot.slot.storageDescriptor = SlotEmpty.storageDescriptor
            /\ IsBoxed(lastSlot.slot.storageDescriptor)
       /\ lastSlot.arg # Null =>
            /\ lastSlot.slot.storageDescriptor = lastSlot.arg
            /\ ~IsBoxed(lastSlot.slot.storageDescriptor)
  /\ \A s \in ConstructedSlots \ {NoSlot} : s.storageDescriptor # Null
  /\ IsBoxed(SlotEmpty.storageDescriptor)
  /\ \A p \in DOMAIN heap : ~IsBoxed(p)
  /\ \A t \in Types : ~IsBoxed(cache[t])

\* After a lookup built descriptors, the program constructed
\* Slot(NULL, REFERENCE, 5): it refers to the sentinel, which is boxed,
\* and the descriptors of the registry are not.
C20_Witness ==
  /\ lastSlot.built
  /\ ~lastSlot.fatal
  /\ lastSlot.arg = Null
  /\ lastSlot.slot = [storageDescriptor |-> boxed, type |-> REFERENCE,
                      offset |-> 5]
  /\ \E p \in DOMAIN heap : heap[p].inited /\ ~IsBoxed(p)

\* The program's descriptor, once init has returned (the constructor's
\* assertion did not end the process).
Constructed == obj.inited /\ ~(sdOp.op = "init" /\ sdFatal)

\* C21: every descriptor that init constructs successfully has a nonzero
\* sizeWithEmptyArray unless it has neither an array part nor any fixed
\* slot; init with sizeWithEmptyArray = 0 and a non-empty slot list or an
\* array part is rejected by a fatal assertion.
C21_ZeroSizeOnlyWhenEmpty ==
  /\ Constructed =>
       \/ obj._sizeWithEmptyArray # 0
       \/ (~obj._hasArray /\ obj._numValues = 0)
  /\ (sdOp.op = "init" /\ sdOp.arg.sizeWithEmptyArray = 0
        /\ (sdOp.arg.hasArray \/ sdOp.arg.slots # <<>>)) => sdFatal

\* C22: a descriptor initialised with n slots records n fixed slots, and
\* they are the given slots in the given order.
C22_SlotsRoundTrip ==
  (sdOp.op = "init" /\ ~sdFatal) =>
    /\ obj._numValues = Len(sdOp.arg.slots)
    /\ Len(obj._values) = Len(sdOp.arg.slots)
    /\ \A i \in 1 .. Len(sdOp.arg.slots) : obj._values[i] = sdOp.arg.slots[i]

\* C23: for every registration macro the block allocated for the
\* descriptor is exactly objectSize(n) bytes, n being the number of slots
\* passed to init: no slot is written outside it and none is left over.
C23_AllocationFitsTheSlots ==
  \A p \in DOMAIN heap :
    heap[p].inited => heap[p].bytes = objectSize(heap[p]._numValues)

\* C24: objectSize(n) is the size of the bare descriptor plus n times the
\* size of one Slot: objectSize(0) is the bare size and each further slot
\* adds the size of one Slot.
C24_ObjectSizeIsLinear ==
  sdOp.op = "objectSize" =>
    /\ sdOp.r = SizeofSD + sdOp.arg * SizeofSlot
    /\ sdOp.arg = 0 => sdOp.r = SizeofSD
    /\ objectSize(sdOp.arg + 1) - sdOp.r = SizeofSlot

\* objectSize(2) was computed: two Slots more than the bare descriptor.
C24_Witness ==
  /\ sdOp.op = "objectSize"
  /\ sdOp.arg = 2
  /\ sdOp.r = SizeofSD + SizeofSlot + SizeofSlot

\* C25: once init has written a descriptor, no operation (hasArray,
\* isBoxed, array, objectSize, building a Slot that refers to it, registry
\* lookups) changes its size, array flag, array slot, slot count or slots.
C25_DescriptorsAreImmutable ==
  [][\A p \in DOMAIN AllDescriptors :
       AllDescriptors[p].inited =>
         /\ p \in DOMAIN AllDescriptors'
         /\ AllDescriptors'[p] = AllDescriptors[p]]_vars

\* array() has returned the array slot of a descriptor of the registry,
\* while the program also holds a descriptor it built itself.
C25_Witness ==
  /\ sdOp.op = "array"
  /\ sdOp.p \in DOMAIN heap
  /\ heap[sdOp.p].inited
  /\ sdOp.r = heap[sdOp.p]._array
  /\ Constructed
  /\ ~sdFatal

\* C26: allocating an object of a Newable type calls the collector's
\* allocate hook exactly once and yields the pointer the hook returned;
\* deleting such an object calls no collector hook and changes nothing.
C26_NewCallsAllocateOnce ==
  /\ newOp.op = "new" =>
       /\ Len(gcCalls) = Len(newOp.before) + 1
       /\ SubSeq(gcCalls, 1, Len(newOp.before)) = newOp.before
       /\ gcCalls[Len(gcCalls)].hook = "allocate"
       /\ gcCalls[Len(gcCalls)].ret = newOp.hookRet
       /\ newOp.ptr = newOp.hookRet
  /\ newOp.op = "delete" => gcCalls = newOp.before

\* An object was allocated after another one, at the address the hook
\* returned for it.
C26_Witness ==
  /\ newOp.op = "new"
  /\ Len(newOp.before) = 1
  /\ Len(gcCalls) = 2
  /\ newOp.ptr = gcCalls[2].ret
  /\ newOp.ptr # gcCalls[1].ret

\* C27: a Handle occupies exactly the storage of its representation: a
\* VALUE handle has the size of T, REFERENCE and WEAK handles have the
\* size of a pointer to T, whatever hook set is used.
C27_HandleSizeIsStorageSize ==
  sizeofOp.op = "sizeof" =>
    /\ sizeofOp.r = sizeofOp.storage.size
    /\ sizeofOp.Type = VALUE => sizeofOp.r = sizeofOp.T.size
    /\ sizeofOp.Type \in {REFERENCE, WEAK} => sizeofOp.r = PointerType.size

\* sizeof was taken of a WEAK handle to a three-byte type with the hooks
\* of Local handles: it is the size of a pointer.
C27_Witness ==
  /\ sizeofOp.op = "sizeof"
  /\ sizeofOp.Type = WEAK
  /\ sizeofOp.T = [size |-> 3, align |-> 1]
  /\ sizeofOp.Hooks = "LocalHandleHooks"
  /\ sizeofOp.r = PointerType.size

\* The line and column of each character of an input, as
\* TEST(Lexer, Position) expects them: a newline sequence is a lone \n, a
\* lone \r, or one of the pairs \r\n and \n\r.
IsNewlineChar(chr) == chr \in {"LF", "CR"}

RECURSIVE CompletesPair(_, _)
CompletesPair(str, i) ==
  /\ 1 < i /\ i <= Len(str)
  /\ IsNewlineChar(str[i]) /\ IsNewlineChar(str[i - 1])
  /\ str[i] # str[i - 1]
  /\ ~CompletesPair(str, i - 1)

RECURSIVE PositionOf(_, _)
PositionOf(str, i) ==
  IF i = 1 THEN [line |-> 1, column |-> 1]
  ELSE LET p == PositionOf(str, i - 1)
       IN  IF IsNewlineChar(str[i - 1]) /\ ~CompletesPair(str, i)
             THEN [line |-> p.line + 1, column |-> 1]
             ELSE [line |-> p.line, column |-> p.column + 1]

\* A callback's position is the position of the character at its offset.
PositionIsRight(e) ==
  /\ e.pos.offset = e.at - 1 + e.rel
  /\ e.pos.line = PositionOf(input, e.pos.offset + 1).line
  /\ e.pos.column = PositionOf(input, e.pos.offset + 1).column

\* C28: every position the lexer reports has the offset of its character
\* counted from 0, the line 1 + the newline sequences before it, and the
\* column counted from 1 after the last newline sequence; in whitespace,
\* after comments and inside string and regex literals.
C28_PositionsFollowNewlines ==
  \A k \in 1 .. Len(lexLog) : PositionIsRight(lexLog[k])

\* The positions of the callbacks other than error, which are the ones
\* TEST(Lexer, Position) compares.
TokenPositionsFollowNewlines ==
  \A k \in 1 .. Len(lexLog) :
    lexLog[k].callback # "error" => PositionIsRight(lexLog[k])

\* C29: inside a string or regex literal each newline sequence makes
\* exactly one error and the literal goes on to its closing delimiter, which
\* makes the one stringEnd or regexEnd; the end marker inside the literal
\* makes exactly one further error, no stringEnd or regexEnd, and ends
\* lexing.
LiteralStates ==
  {"IN_STRING", "IN_STRING_GOT_ESCAPE", "IN_STRING_GOT_N", "IN_STRING_GOT_R",
   "IN_REGEX", "IN_REGEX_GOT_ESCAPE", "IN_REGEX_GOT_N", "IN_REGEX_GOT_R"}

\* The lexer has seen the first character of a newline sequence and waits
\* for the next character to tell a pair from a lone newline.
NewlinePending ==
  lexer._state \in {"IN_STRING_GOT_N", "IN_STRING_GOT_R", "IN_REGEX_GOT_N",
                    "IN_REGEX_GOT_R"}

\* The index of the character that began the last literal, 0 if none.
LastBegin ==
  LET S == {lexLog[k].at : k \in {j \in 1 .. Len(lexLog) :
              lexLog[j].callback \in {"stringBegin", "regexBegin"}}}
  IN  IF S = {} THEN 0 ELSE CHOOSE m \in S : \A x \in S : x <= m

\* The indices at which the last literal was closed.
LiteralEnds ==
  {lexLog[k].at : k \in {j \in 1 .. Len(lexLog) :
     /\ lexLog[j].callback \in {"stringEnd", "regexEnd"}
     /\ lexLog[j].at > LastBegin}}

NewlineSequences(lo, hi) ==
  Cardinality({i \in lo + 1 .. hi :
                 IsNewlineChar(input[i]) /\ ~CompletesPair(input, i)})

ErrorsBetween(lo, hi) ==
  Cardinality({k \in 1 .. Len(lexLog) :
                 /\ lexLog[k].callback = "error"
                 /\ lo < lexLog[k].at /\ lexLog[k].at <= hi})

C29_OneErrorPerNewlineInLiteral ==
  (~lexFatal /\ LastBegin > 0) =>
    LET b == LastBegin
        n == Len(input)
    IN  IF lexer._state \in LiteralStates
          THEN /\ LiteralEnds = {}
               /\ ErrorsBetween(b, n) =
                    NewlineSequences(b, n) - (IF NewlinePending THEN 1 ELSE 0)
        ELSE IF LiteralEnds # {}
          THEN /\ Cardinality(LiteralEnds) = 1
               /\ \A e \in LiteralEnds :
                    /\ input[e] \in {"DQUOTE", "SLASH"}
                    /\ ErrorsBetween(b, e) = NewlineSequences(b, e)
        ELSE /\ endedAt > b
             /\ input[endedAt] = "NUL"
             /\ \A i \in b + 1 .. endedAt - 1 : input[i] # "NUL"
             /\ ErrorsBetween(b, endedAt) = NewlineSequences(b, endedAt) + 1
             /\ lexer._state \in EndedStates

\* A regex literal holding a newline sequence has met the end marker: two
\* errors, no regexEnd, lexing ended.
C29_Witness ==
  /\ ~lexFatal
  /\ Len(input) = 4
  /\ input[1] = "QUOTE" /\ input[2] = "SLASH" /\ input[3] \in {"LF", "CR"}
  /\ input[4] = "NUL"
  /\ lexer._state = "ENDED"
  /\ ErrorsBetween(2, 4) = 2
  /\ LiteralEnds = {}

\* C30: once the end marker has been consumed and the lexer is in an ended
\* state, the first further character makes exactly one error callback, at
\* that character, every later character makes no callback at all, and the
\* lexer stays in the ended states.
C30_EndedStaysEnded ==
  [][lexer._state \in EndedStates =>
       /\ lexer'._state = "ENDED_REPORTED_ERROR"
       /\ ~lexFatal'
       /\ IF lexer._state = "ENDED"
            THEN /\ Len(lexLog') = Len(lexLog) + 1
                 /\ SubSeq(lexLog', 1, Len(lexLog)) = lexLog
                 /\ lexLog'[Len(lexLog')].callback = "error"
                 /\ lexLog'[Len(lexLog')].at = Len(input) + 1
                 /\ lexLog'[Len(lexLog')].pos.offset = Len(input)
            ELSE lexLog' = lexLog]_vars

\* Two or more characters came after the end: one callback was made.
C30_Witness ==
  /\ endedAt > 0
  /\ Len(input) >= endedAt + 2
  /\ lexer._state = "ENDED_REPORTED_ERROR"
  /\ Cardinality({k \in 1 .. Len(lexLog) : lexLog[k].at > endedAt}) = 1

\* C33: popTo(r) is rejected only when r is greater than the current size.
\* A stale ref, one taken before an earlier popTo or clear cut the stack
\* below it, is accepted once pushes have brought the size back to it or
\* above, and the stack is then cut to its first r entries.
C33_StaleRefIsAccepted ==
  (stackOp.op = "popTo" /\ stackOp.r \in staleRefs) =>
    /\ stackFatal <=> stackOp.r > Len(stackOp.before)
    /\ ~stackFatal => _vec = SubSeq(stackOp.before, 1, stackOp.r)

\* A ref taken at height 2 went stale, the stack grew back to 3 entries and
\* popTo of that ref was accepted: two entries are left.
C33_Witness ==
  /\ stackOp.op = "popTo"
  /\ stackOp.r = 2
  /\ stackOp.r \in staleRefs
  /\ Len(stackOp.before) = 3
  /\ ~stackFatal
  /\ Len(_vec) = 2

\* C34: add(x, d) and remove(x) change only the entry of x: every other
\* identity is present after the call exactly if it was before, with the
\* same descriptor and the same refcount.
C34_OtherEntriesUntouched ==
  poolOp.op \in {"add", "remove"} =>
    \A y \in Data \ {poolOp.data} :
      /\ y \in DOMAIN _map <=> y \in DOMAIN poolOp.before
      /\ y \in DOMAIN _map => _map[y] = poolOp.before[y]

\* The last reference of one identity was removed while a smaller identity
\* held two references: that one is still there with its two references.
C34_Witness ==
  /\ poolOp.op = "remove"
  /\ ~poolFatal
  /\ poolOp.data \notin DOMAIN _map
  /\ \E y \in DOMAIN _map :
       /\ y < poolOp.data
       /\ _map[y].second = 2
       /\ _map[y] = poolOp.before[y]

\* C35: obtaining begin() and end() and iterating from one to the other
\* reads only entries that are present in the pool: no map iterator is
\* dereferenced at the past-the-end position, also for an empty pool and
\* when an increment reaches end().
C35_NoReadPastTheEnd == ~iter.pastEndRead

\* The types a registered type names in its slot list and as its array
\* element, and the types reachable from a type along these references
\* (the type itself included).
ReferencedBy(t) ==
  {Registered[t].members[i].type : i \in 1 .. Len(Registered[t].members)}
    \cup (IF Registered[t].array = "none" THEN {}
          ELSE {Registered[t].array})

RECURSIVE ReachableFrom(_)
ReachableFrom(S) ==
  LET more == S \cup UNION {ReferencedBy(t) : t \in S}
  IN  IF more = S THEN S ELSE ReachableFrom(more)

\* C36: a lookup terminates whatever the reference graph of the registered
\* types.  The active calls of get that are past their allocation are
\* calls for distinct types reachable from the looked-up type, so there
\* are at most as many as such types; the one call more is a call that
\* finds the cache set and returns at once.  A lookup that is running
\* comes to its end: its return, or a failed ARW_CHECK.
C36_LookupDepthIsBounded ==
  /\ [](regStack # <<>> =>
          /\ Len(regStack) <= Cardinality(ReachableFrom({regStack[1].klass}))
          /\ \A i \in 1 .. Len(regStack) :
               /\ regStack[i].klass \in ReachableFrom({regStack[1].klass})
               /\ \A j \in 1 .. Len(regStack) :
                    regStack[i].klass = regStack[j].klass => i = j)
  /\ (regStack # <<>>) ~> (regStack = <<>> \/ regFatal)

\* A lookup in the cycle of Slot and StorageDescriptor is two calls deep,
\* as many as the types it reaches, and the inner call has just been
\* handed the cached pointer of the type whose own call is still active.
C36_Witness ==
  /\ Len(regStack) = 2
  /\ Cardinality(ReachableFrom({regStack[1].klass})) = 2
  /\ lastCall.cached /\ lastCall.nested /\ lastCall.inProgress

\* C37: copy and move construction and copy and move assignment from a
\* REFERENCE or WEAK handle take the source's stored pointer as it is: no
\* read hook is called, on the source or at all, the constructed handle
\* holds the source's _data and the assignment hands the source's _data to
\* write, whatever a read of the source would have returned.
C37_CopyTakesRawPointer ==
  (hType # VALUE /\ hOp.op \in {"copy", "move", "assign", "moveAssign"}) =>
    /\ \A i \in 1 .. Len(hookLog) : hookLog[i].fn # "read"
    /\ \A i \in 1 .. Len(gcLog) : gcLog[i].fn # "read"
    /\ hOp.op \in {"copy", "move"} =>
         /\ handles[hOp.h]._data = handles[hOp.src]._data
         /\ handles[hOp.h]._data = hOp.val
    /\ hOp.op \in {"assign", "moveAssign"} =>
         /\ Len(hookLog) = 1
         /\ hookLog[1].fn = "write"
         /\ hookLog[1].ptr = hOp.h
         /\ hookLog[1].val = hOp.val

\* A REFERENCE handle was copy-constructed from one holding a non-null
\* pointer while the collector's read returns nullptr: the copy holds the
\* pointer.
C37_Witness ==
  /\ hType = REFERENCE
  /\ hOp.op = "copy"
  /\ readNull
  /\ handles[hOp.src]._data # Null
  /\ handles[hOp.h]._data = handles[hOp.src]._data

\* C38: the size operator new passes to the collector's allocate hook is
\* the number of bytes requested for the object, sizeof(ChildClass) for a
\* single object, not a multiple of it.
C38_AllocateGetsRequestedSize ==
  newOp.op = "new" =>
    /\ Len(gcCalls) = Len(newOp.before) + 1
    /\ gcCalls[Len(gcCalls)].size = newOp.sz

(***************************************************************************)
(* Precision suffix of a number                                            *)
(***************************************************************************)
\* The positions of the input at which the second digit of a precision
\* suffix was given: the lexer was in a one-digit precision state and got
\* a digit.
SecondPrecisionDigits ==
  {p \in 1 .. Len(input) :
     stateLog[p] \in AllPrecisionStates /\ isDigit(input[p])}

\* The last position of the run of digits that follows position p (p itself
\* when no digit follows).
DigitRunEnd(p) ==
  CHOOSE q \in p .. Len(input) :
    /\ \A k \in (p + 1) .. q : isDigit(input[k])
    /\ (q = Len(input) \/ ~isDigit(input[q + 1]))

\* The callbacks of the given name made while the characters lo .. hi were
\* lexed.
CallbacksBetween(callback, lo, hi) ==
  {i \in 1 .. Len(lexLog) :
     lexLog[i].callback = callback /\ lexLog[i].at >= lo /\ lexLog[i].at <= hi}

TooManyDigitsErrors(lo, hi) ==
  {i \in CallbacksBetween("error", lo, hi) :
     lexLog[i].msg = "Number precision must be at most 2 digits"}

\* C31: a precision suffix has at most two digits.  At the second digit
\* numberEnd is reported exactly once, with the two-digit precision; the
\* digits that follow, however many, give exactly one "at most 2 digits"
\* error and no second numberEnd.
C31_ExtraPrecisionDigitsOneError ==
  \A p \in SecondPrecisionDigits :
    LET q == DigitRunEnd(p)
        ends == CallbacksBetween("numberEnd", p, p)
    IN  /\ Cardinality(ends) = 1
        /\ \A i \in ends :
             lexLog[i].arg[2] = numberPrecisionDigit(stateLog[p]) * 10
                                  + DigitValue(input[p])
        /\ CallbacksBetween("numberEnd", p + 1, q) = {}
        /\ Cardinality(TooManyDigitsErrors(p + 1, q))
             = IF q > p THEN 1 ELSE 0

\* The same in a release build, where no assertion is compiled in.
ExtraPrecisionDigitsOneErrorInRelease ==
  DEBUG \/ C31_ExtraPrecisionDigitsOneError

\* What the code does in a release build: one error for each further digit.
ExtraPrecisionDigitsErrorEach ==
  ~DEBUG =>
    \A p \in SecondPrecisionDigits :
      LET q == DigitRunEnd(p)
      IN  /\ Cardinality(CallbacksBetween("numberEnd", p, q)) = 1
          /\ Cardinality(TooManyDigitsErrors(p + 1, q)) = q - p



(***************************************************************************)
(* Two-character tokens and the character after a token                    *)
(***************************************************************************)
\* _state before the character after position p, if that character has
\* been given, and the present _state otherwise.
StateAfter(p) == IF p < Len(input) THEN stateLog[p + 1] ELSE lexer._state

\* The positions at which a '>' completed "->" or "=>".
ArrowHeads ==
  {p \in 1 .. Len(input) :
     stateLog[p] \in {"GOT_DASH", "GOT_EQUALS"} /\ input[p] = ">"}

ArrowCallback(state) == IF state = "GOT_DASH" THEN "arrow" ELSE "doubleArrow"

\* C40: the '>' of "->" and of "=>" reports arrow / doubleArrow exactly
\* once and leaves the lexer at a token start, so every callback made for
\* the next character lies at that character's own offset.
C40_ArrowReturnsToTokenStart ==
  \A p \in ArrowHeads :
    /\ Cardinality(CallbacksBetween(ArrowCallback(stateLog[p]), p, p)) = 1
    /\ StateAfter(p) = "IN_WHITESPACE"
    /\ \A i \in 1 .. Len(lexLog) :
         lexLog[i].at = p + 1 => lexLog[i].pos.offset = p

\* What holds in the code: the arrow is reported once, at the offset of the
\* '-' or '=', and the state is left as it was.
ArrowLeavesStateAsItWas ==
  \A p \in ArrowHeads :
    /\ \E i \in CallbacksBetween(ArrowCallback(stateLog[p]), p, p) :
         /\ CallbacksBetween(ArrowCallback(stateLog[p]), p, p) = {i}
         /\ lexLog[i].pos.offset = p - 2
    /\ StateAfter(p) = stateLog[p]


\* The callbacks made while character p was lexed, in order, without their
\* positions.
CallsAt(p) ==
  LET idx == {i \in 1 .. Len(lexLog) : lexLog[i].at = p}
      first == IF idx = {} THEN 1
               ELSE CHOOSE i \in idx : \A j \in idx : i <= j
  IN  [k \in 1 .. Cardinality(idx) |->
         [callback |-> lexLog[first + k - 1].callback,
          rel |-> lexLog[first + k - 1].rel,
          msg |-> lexLog[first + k - 1].msg,
          arg |-> lexLog[first + k - 1].arg]]

\* lexChar(chr) at a token start.
FreshLex(chr) ==
  lexChar([_state |-> "IN_WHITESPACE", _offset |-> 0, _line |-> 1,
           _column |-> 1, out |-> <<>>, fatal |-> FALSE], chr)

FreshCalls(chr) ==
  LET out == FreshLex(chr).out
  IN  [k \in 1 .. Len(out) |->
         [callback |-> out[k].callback, rel |-> out[k].rel,
          msg |-> out[k].msg, arg |-> out[k].arg]]

IsSuffix(s, t) ==
  /\ Len(s) <= Len(t)
  /\ \A k \in 1 .. Len(s) : s[k] = t[Len(t) - Len(s) + k]

\* Character p was lexed as the start of a token: the turn ended with the
\* callbacks of a fresh lexChar of it, in the state a fresh lexChar leaves.
LexedAsTokenStart(p) ==
  /\ IsSuffix(FreshCalls(input[p]), CallsAt(p))
  /\ StateAfter(p) = FreshLex(input[p])._state

\* The positions whose character ended a symbol or a number.
SymbolTerminators ==
  {p \in 1 .. Len(input) :
     \E i \in CallbacksBetween("symbolEnd", p, p) : lexLog[i].rel = 0}

NumberTerminators ==
  {p \in 1 .. Len(input) :
     \/ \E i \in CallbacksBetween("numberEnd", p, p) : lexLog[i].rel = 0
     \/ stateLog[p] = "GOT_NUMBER_PRECISION_2" /\ ~isDigit(input[p])}

\* The positions whose character came after a single colon, a single quote
\* or a single '=' and did not make a two-character token with it.
ColonTerminators ==
  {p \in 1 .. Len(input) : stateLog[p] = "GOT_COLON" /\ input[p] # ":"}

QuoteTerminators ==
  {p \in 1 .. Len(input) :
     stateLog[p] = "GOT_QUOTE" /\ input[p] \notin {"SLASH", "QUOTE"}}

EqualsTerminators ==
  {p \in 1 .. Len(input) : stateLog[p] = "GOT_EQUALS" /\ input[p] # ">"}

\* C39: no character is lost.  The character that ends a symbol, a number,
\* a colon, a quote or a lone '=' is itself lexed as the start of the next
\* token.
C39_TerminatorIsLexed ==
  \A p \in SymbolTerminators \cup NumberTerminators \cup ColonTerminators
             \cup QuoteTerminators \cup EqualsTerminators :
    LexedAsTokenStart(p)

\* What holds in the code: the character after a symbol, a colon or a quote
\* is lexed, and so is the one after a two-digit precision.
TerminatorIsLexedAfterSymbolColonQuote ==
  \A p \in SymbolTerminators \cup ColonTerminators \cup QuoteTerminators
             \cup {q \in NumberTerminators :
                     stateLog[q] = "GOT_NUMBER_PRECISION_2"} :
    LexedAsTokenStart(p)

\* What the code does with the character that ends a number through
\* lexEndOfNumber: it makes no callback for it and is at a token start
\* after it.
NumberTerminatorIsDropped ==
  \A p \in NumberTerminators :
    stateLog[p] # "GOT_NUMBER_PRECISION_2" =>
      /\ CallsAt(p)[Len(CallsAt(p))].callback = "numberEnd"
      /\ StateAfter(p) = "IN_WHITESPACE"



(***************************************************************************)
(* Runs of colons                                                          *)
(***************************************************************************)
\* The states in which a colon is text of a literal or of a comment, or
\* stray data after the end, and no token.
ColonIsTextStates ==
  LiteralStates \cup EndedStates
    \cup {"IN_CHAR", "IN_CHAR_GOT_ESCAPE", "IN_CHAR_GOT_N", "IN_CHAR_GOT_R",
          "IN_COMMENT", "IN_COMMENT_GOT_N", "IN_COMMENT_GOT_R"}

\* The runs of colons of the input that a further character has ended:
\* <<p, q>> with colons at p .. q, none before p or after q, the first one
\* given to the lexer outside a literal.
ColonRuns ==
  {r \in (1 .. Len(input)) \X (1 .. Len(input)) :
     /\ r[1] <= r[2] /\ r[2] < Len(input)
     /\ \A k \in r[1] .. r[2] : input[k] = ":"
     /\ (r[1] = 1 \/ input[r[1] - 1] # ":")
     /\ input[r[2] + 1] # ":"
     /\ stateLog[r[1]] \notin ColonIsTextStates}

\* The offsets at which the given callback was made while the characters
\* lo .. hi were lexed.
OffsetsBetween(callback, lo, hi) ==
  {lexLog[i].pos.offset : i \in CallbacksBetween(callback, lo, hi)}

\* The run p .. q was lexed greedily from the left: a doubleColon at each
\* pair, a colon at the last one if their number is odd, each once and at
\* the offset of its first colon; the character after the run was lexed as
\* the start of a token.
RunLexedGreedily(p, q) ==
  LET n == q - p + 1
  IN  /\ Cardinality(CallbacksBetween("doubleColon", p, q + 1)) = n \div 2
      /\ OffsetsBetween("doubleColon", p, q + 1)
           = {(p - 1) + 2 * k : k \in 0 .. (n \div 2 - 1)}
      /\ Cardinality(CallbacksBetween("colon", p, q + 1)) = n % 2
      /\ OffsetsBetween("colon", p, q + 1)
           = IF n % 2 = 1 THEN {q - 1} ELSE {}
      /\ LexedAsTokenStart(q + 1)

\* C32: a run of n colons gives n div 2 doubleColon tokens and then one
\* colon token if n is odd, each at the offset of its first colon, and the
\* character after the run is lexed as a fresh token.
C32_ColonRunsAreGreedy ==
  \A r \in ColonRuns : RunLexedGreedily(r[1], r[2])

\* What holds in the code: the runs whose first colon is not the character
\* that lexEndOfNumber or the else branch of GOT_EQUALS drops.
ColonRunsAreGreedyWhenFirstColonIsLexed ==
  \A r \in ColonRuns :
    r[1] \notin (NumberTerminators \ {q \in NumberTerminators :
                    stateLog[q] = "GOT_NUMBER_PRECISION_2"})
                  \cup EqualsTerminators
      => RunLexedGreedily(r[1], r[2])


====
